---- MODULE Spec2Model ----
(***************************************************************************)
(* The trusted location engine of orbitalmap in its two builds:            *)
(*   "oyster"  apps/oyster-rewards (library + HTTP API, any-match policy)  *)
(*   "tee"     apps/tee-rewards    (stdin/stdout worker, quorum policy)    *)
(*                                                                         *)
(* Two specifications are given.                                           *)
(*   Spec     the handlers statement by statement, with the station-map    *)
(*            mutex: every thread has a program counter, a lock request    *)
(*            is a step of its own.                                        *)
(*   SpecSeq  the handlers as sequential code, one action per handler:     *)
(*            the statements of a handler in program order, with every     *)
(*            lock request granted.  It is the semantics the statements    *)
(*            of lines 61-92 (oyster) and 266-296 (tee) have once the      *)
(*            lock request in front of them returns.                       *)
(*                                                                         *)
(* Units: coordinates are integers in units of 0.0001 degree, so that the  *)
(* grid arithmetic is exact.  A Wi-Fi network is its bssid, a cell tower   *)
(* its cell_id, a station its (id, station_type); the other fields of      *)
(* these records are copied by the code and never compared.                *)
(***************************************************************************)
EXTENDS Integers, Sequences, FiniteSets, TLC

VARIABLES
    engine,            \* which build runs: "oyster" or "tee"
    NEARBY_STATIONS,   \* HashMap<GridCell, Vec<Station>>
    LOCATION_HISTORY,  \* HashMap<String, Vec<EncryptedLocation>>
    HEATMAP_DATA,      \* HashMap<GridCell, u32>            (tee only)
    LOCATION_VISITS,   \* HashMap<GridCell, Vec<u64>>       (tee only)
    stations_guard,    \* the thread holding the NEARBY_STATIONS mutex, 0 if free
    poisoned,          \* the NEARBY_STATIONS mutex is poisoned
    pc,                \* Spec: where each thread is in its handler
    call,              \* Spec: the handler a thread runs and its argument
    scope,             \* SpecSeq: the input sets this run draws from
    last,              \* SpecSeq: the handler that ran last, argument and result
    HEATMAP_CACHE,     \* HashMap<String, HeatmapResponse>  (oyster only)
    hm,                \* SpecHeatmap: each thread's call of generate_heatmap
    cr,                \* SpecCrypto: the value handed to the crypto engine
    child,             \* EnarxProcess.child: Mutex<Option<Child>>, owner and handle
    enarx,             \* the worker processes spawned so far, with their pipes
    accepted           \* the number of HTTP requests accepted so far

vars == <<engine, NEARBY_STATIONS, LOCATION_HISTORY, HEATMAP_DATA, LOCATION_VISITS,
          stations_guard, poisoned, pc, call, scope, last, HEATMAP_CACHE, hm, cr,
          child, enarx, accepted>>

\* the supervisor of the worker process (tee-rewards/web-interface)
channel == <<child, enarx, accepted>>

\* what the handlers of the location module do not touch
others == <<HEATMAP_CACHE, hm, cr, channel>>

store == <<NEARBY_STATIONS, LOCATION_HISTORY, HEATMAP_DATA, LOCATION_VISITS>>

Engines == {"oyster", "tee"}

\* 0.001 degree, in units of 0.0001 degree
GRID_SIZE == 10

(***************************************************************************)
(* Hash maps: a function on the set of keys present.                       *)
(***************************************************************************)
EmptyMap == [k \in {} |-> 0]

Has(m, k) == k \in DOMAIN m

Put(m, k, v) == [x \in DOMAIN m \cup {k} |-> IF x = k THEN v ELSE m[x]]

SeqToSet(s) == {s[i] : i \in DOMAIN s}

(***************************************************************************)
(* Spatial grid                                                            *)
(***************************************************************************)
GridCell_from_location(lat, lon) ==
    [lat_grid |-> lat \div GRID_SIZE, lon_grid |-> lon \div GRID_SIZE]

(***************************************************************************)
(* verify_location: the checks                                             *)
(***************************************************************************)
\* faulty variant of RejectedEarly: the gyroscope test is missing
RejectedEarly_NoGyroscope(location) ==
    \/ location.is_mock_location
    \/ ~location.accelerometer

\* the early returns: mock flag, or a sensor reading absent
RejectedEarly(location) ==
    \/ location.is_mock_location
    \/ ~location.accelerometer \/ ~location.gyroscope

\* faulty variant of wifi_matches: the station type is not looked at
wifi_matches_AnyType(expected_stations, location) ==
    Cardinality({i \in DOMAIN location.wifi_networks :
        \E j \in DOMAIN expected_stations :
            expected_stations[j].id = location.wifi_networks[i]})

\* the reported Wi-Fi networks (counted per report entry) whose bssid is the
\* id of a stored station of type Wifi
wifi_matches(expected_stations, location) ==
    Cardinality({i \in DOMAIN location.wifi_networks :
        \E j \in DOMAIN expected_stations :
            /\ expected_stations[j].station_type = "Wifi"
            /\ expected_stations[j].id = location.wifi_networks[i]})

\* the reported cell towers (counted per report entry) whose cell_id is the
\* id of a stored station of type CellTower
cell_matches(expected_stations, location) ==
    Cardinality({i \in DOMAIN location.cell_towers :
        \E j \in DOMAIN expected_stations :
            /\ expected_stations[j].station_type = "CellTower"
            /\ expected_stations[j].id = location.cell_towers[i]})

total_matched(expected_stations, location) ==
    wifi_matches(expected_stations, location) + cell_matches(expected_stations, location)

\* faulty variant of AnyMatchRejects: the any-match policy refuses nothing
AnyMatchRejects_Never(expected_stations, location) == FALSE

\* oyster: if wifi_matches == 0 && cell_matches == 0 && !expected_stations.is_empty()
AnyMatchRejects(expected_stations, location) ==
    /\ wifi_matches(expected_stations, location) = 0
    /\ cell_matches(expected_stations, location) = 0
    /\ expected_stations # <<>>

\* tee: (total_matched as f32 / total_expected as f32) < 0.3.  Both counts are
\* far below 2^24, so the casts are exact, and the rounded quotient is below
\* the f32 nearest to 0.3 exactly when 10 * matched < 3 * expected.
BelowQuorum(matched, expected) == 10 * matched < 3 * expected

QuorumRejects(expected_stations, location) ==
    /\ Len(expected_stations) > 0
    /\ BelowQuorum(total_matched(expected_stations, location), Len(expected_stations))

\* the station check of the build e against the cell's entry of the map
StationMismatch(e, stations, location) ==
    LET grid_cell == GridCell_from_location(location.lat, location.lon) IN
    /\ Has(stations, grid_cell)
    /\ stations[grid_cell] # <<>>
    /\ IF e = "oyster" THEN AnyMatchRejects(stations[grid_cell], location)
                       ELSE QuorumRejects(stations[grid_cell], location)

(***************************************************************************)
(* Inputs of Spec                                                          *)
(***************************************************************************)
Threads == {1, 2}

\* the oyster API serves requests on several threads; the tee worker is one loop
ThreadsOf(e) == IF e = "oyster" THEN Threads ELSE {1}

LockLocations ==
    [lat : {5}, lon : {5}, timestamp : {1}, user_id : {"u1"}, device_id : {"d1"},
     wifi_networks : {<<>>, <<"b1">>}, cell_towers : {<<>>, <<"t1">>},
     accelerometer : BOOLEAN, gyroscope : BOOLEAN, is_mock_location : BOOLEAN]

\* verify_location is public in oyster, private in tee
HandlersOf(e) == IF e = "oyster" THEN {"verify_location", "register_location"}
                                 ELSE {"register_location"}

NoCall == [op |-> "none"]

\* EnarxProcess::new(): no child is held, the mutex is free
NoChild == [guard |-> 0, handle |-> 0]

\* the builds that run without the web interface start no worker process
NoSupervisor == child = NoChild /\ enarx = <<>> /\ accepted = 0

(***************************************************************************)
(* Spec: the handlers with the station-map mutex                           *)
(***************************************************************************)
Init ==
    /\ engine \in Engines
    /\ NEARBY_STATIONS = EmptyMap
    /\ LOCATION_HISTORY = EmptyMap
    /\ HEATMAP_DATA = EmptyMap
    /\ LOCATION_VISITS = EmptyMap
    /\ stations_guard = 0
    /\ poisoned = FALSE
    /\ pc = [th \in Threads |-> "idle"]
    /\ call = [th \in Threads |-> NoCall]
    /\ scope = "none"
    /\ last = NoCall
    /\ HEATMAP_CACHE = EmptyMap
    /\ hm = NoCall
    /\ cr = NoCall
    /\ NoSupervisor

\* a thread enters verify_location or register_location (which calls
\* verify_location first) with some report
Enter(th) ==
    /\ th \in ThreadsOf(engine)
    /\ pc[th] \in {"idle", "returned"}
    /\ \E op \in HandlersOf(engine), location \in LockLocations :
          call' = [call EXCEPT ![th] = [op |-> op, location |-> location]]
    /\ pc' = [pc EXCEPT ![th] = "verify"]
    /\ UNCHANGED <<engine, others, store, stations_guard, poisoned, scope, last>>

\* the value the handler returns when verify_location returns false
\* String::new(): the empty id, the base64 text of zero bytes.  No
\* ciphertext is empty (it carries a tag).
EmptyId ==
    [base64 |-> TRUE,
     bytes |-> [sealed_with |-> [len |-> 0, bytes |-> ""], plaintext |-> <<>>,
                tag |-> FALSE]]

Failure(c) ==
    IF c.op = "verify_location" THEN [ok |-> FALSE]
    ELSE [ok |-> FALSE, encrypted_location_id |-> EmptyId]

\* lines 20-27 / 222-229: return false
EarlyReturn(th) ==
    /\ pc[th] = "verify"
    /\ RejectedEarly(call[th].location)
    /\ pc' = [pc EXCEPT ![th] = "returned"]
    /\ call' = [call EXCEPT ![th] = [op |-> call[th].op, location |-> call[th].location,
                                      result |-> Failure(call[th])]]
    /\ UNCHANGED <<engine, others, store, stations_guard, poisoned, scope, last>>

\* line 32 / 234: let stations = NEARBY_STATIONS.lock().unwrap();
\* blocks while another thread holds the mutex
FirstLock(th) ==
    /\ pc[th] = "verify"
    /\ ~RejectedEarly(call[th].location)
    /\ stations_guard = 0
    /\ ~poisoned
    /\ stations_guard' = th
    /\ pc' = [pc EXCEPT ![th] = "check"]
    /\ UNCHANGED <<engine, others, store, poisoned, call, scope, last>>

\* line 32 / 234 on a poisoned mutex: unwrap() panics
FirstLockPoisoned(th) ==
    /\ pc[th] = "verify"
    /\ ~RejectedEarly(call[th].location)
    /\ stations_guard = 0
    /\ poisoned
    /\ pc' = [pc EXCEPT ![th] = "panicked"]
    /\ UNCHANGED <<engine, others, store, stations_guard, poisoned, call, scope, last>>

\* lines 34-59 / 236-264 under the guard of line 32 / 234: on a mismatch
\* return false (the guard is dropped); otherwise go on to line 62 / 267,
\* let mut stations = NEARBY_STATIONS.lock().unwrap(), with the first guard
\* still alive: it is a named binding and lives to the end of the function
CheckStations(th) ==
    /\ pc[th] = "check"
    /\ IF StationMismatch(engine, NEARBY_STATIONS, call[th].location)
       THEN /\ stations_guard' = 0
            /\ pc' = [pc EXCEPT ![th] = "returned"]
            /\ call' = [call EXCEPT ![th] =
                            [op |-> call[th].op, location |-> call[th].location,
                             result |-> Failure(call[th])]]
       ELSE /\ pc' = [pc EXCEPT ![th] = "second_lock"]
            /\ UNCHANGED <<stations_guard, call>>
    /\ UNCHANGED <<engine, others, store, poisoned, scope, last>>

\* line 62 / 267 requested by the thread that holds the mutex.  std::sync::
\* Mutex::lock "will not return" then: it deadlocks (the thread stays at
\* "second_lock" for ever, no action moves it) or it panics, as here: the
\* unwinding drops the first guard and poisons the mutex.
SecondLockPanics(th) ==
    /\ pc[th] = "second_lock"
    /\ stations_guard = th
    /\ pc' = [pc EXCEPT ![th] = "panicked"]
    /\ stations_guard' = 0
    /\ poisoned' = TRUE
    /\ UNCHANGED <<engine, others, store, call, scope, last>>

Next ==
    \E th \in Threads :
        \/ Enter(th)
        \/ EarlyReturn(th)
        \/ FirstLock(th)
        \/ FirstLockPoisoned(th)
        \/ CheckStations(th)
        \/ SecondLockPanics(th)

Spec == Init /\ [][Next]_vars

(***************************************************************************)
(* verify_location: the station bookkeeping                                *)
(***************************************************************************)
Station(id, station_type) == [id |-> id, station_type |-> station_type]

\* oyster lines 66-89: push a station for every id of `ids` that no station
\* of the cell carries yet (the comparison is by id alone, whatever the type)
RECURSIVE PushUnseen(_, _, _)
PushUnseen(stations_in_cell, ids, station_type) ==
    IF ids = <<>> THEN stations_in_cell
    ELSE PushUnseen(
            IF \E j \in DOMAIN stations_in_cell : stations_in_cell[j].id = Head(ids)
            THEN stations_in_cell
            ELSE Append(stations_in_cell, Station(Head(ids), station_type)),
            Tail(ids), station_type)

\* faulty variant of MergeStations: the cell's earlier stations are dropped
MergeStations_Forgetful(stations, location) ==
    Put(stations, GridCell_from_location(location.lat, location.lon),
        PushUnseen(PushUnseen(<<>>, location.wifi_networks, "Wifi"),
                   location.cell_towers, "CellTower"))

\* oyster lines 62-89: stations.entry(grid_cell).or_insert(Vec::new()), then
\* the Wi-Fi networks, then the cell towers
MergeStations(stations, location) ==
    LET grid_cell == GridCell_from_location(location.lat, location.lon)
        stations_in_cell == IF Has(stations, grid_cell) THEN stations[grid_cell] ELSE <<>>
    IN  Put(stations, grid_cell,
            PushUnseen(PushUnseen(stations_in_cell, location.wifi_networks, "Wifi"),
                       location.cell_towers, "CellTower"))

\* tee lines 268-290: one station per reported network and tower
new_stations(location) ==
    [i \in 1..Len(location.wifi_networks) |-> Station(location.wifi_networks[i], "Wifi")]
    \o [i \in 1..Len(location.cell_towers) |-> Station(location.cell_towers[i], "CellTower")]

\* tee line 293: stations.insert(grid_cell, new_stations)
InsertStations(stations, location) ==
    Put(stations, GridCell_from_location(location.lat, location.lon),
        new_stations(location))

\* the station map verify_location leaves when it returns true
StoreStations(e, stations, location) ==
    IF e = "oyster" THEN MergeStations(stations, location)
                    ELSE InsertStations(stations, location)

\* the value verify_location returns
Verified(e, stations, location) ==
    /\ ~RejectedEarly(location)
    /\ ~StationMismatch(e, stations, location)

\* faulty variant of UpdatedStations: the stations are stored before the checks
UpdatedStations_Always(e, stations, location) ==
    StoreStations(e, stations, location)

\* the station map verify_location leaves: untouched on `return false`
UpdatedStations(e, stations, location) ==
    IF Verified(e, stations, location) THEN StoreStations(e, stations, location)
                                       ELSE stations

(***************************************************************************)
(* Crypto engine.  The cipher is ideal: a ciphertext is determined by, and *)
(* determines, the nonce and the plaintext it was sealed from, and it      *)
(* opens only under that nonce and with its tag intact.  A text is         *)
(* modelled by whether it is base64 and the bytes it then decodes to.      *)
(* JSON lists the fields of the struct in declaration order; a number is   *)
(* written as its decimal text.                                            *)
(***************************************************************************)
\* f64::INFINITY, a value of the coordinate fields that is no number
f64_INFINITY == 1000000

\* the finite coordinates the model's reports use
Coordinates == -20..40

\* serde_json writes a finite float as its decimal text and any other as null
f64_to_json(x) == IF x = f64_INFINITY THEN "null" ELSE ToString(x)

\* the number a decimal text denotes
ParseTable ==
    [text \in {ToString(n) : n \in Coordinates} |->
        CHOOSE n \in Coordinates : ToString(n) = text]

\* serde_json reads an f64: a number, and nothing else
json_to_f64(text) ==
    IF text \in DOMAIN ParseTable THEN [ok |-> TRUE, value |-> ParseTable[text]]
                                  ELSE [ok |-> FALSE]

\* serde_json::to_string(location)
Serialize(location) ==
    <<f64_to_json(location.lat), f64_to_json(location.lon), location.timestamp,
      location.user_id, location.device_id,
      <<location.wifi_networks, location.cell_towers, location.accelerometer,
        location.gyroscope, location.is_mock_location>> >>

\* serde_json::from_slice(&decrypted): Err unless the text is an object with
\* the fields of Location, the coordinates being numbers
Deserialize(json) ==
    IF Len(json) # 6 THEN [ok |-> FALSE]
    ELSE IF ~json_to_f64(json[1]).ok \/ ~json_to_f64(json[2]).ok THEN [ok |-> FALSE]
    ELSE [ok |-> TRUE,
          location |->
            [lat |-> json_to_f64(json[1]).value, lon |-> json_to_f64(json[2]).value,
             timestamp |-> json[3], user_id |-> json[4], device_id |-> json[5],
             wifi_networks |-> json[6][1], cell_towers |-> json[6][2],
             accelerometer |-> json[6][3], gyroscope |-> json[6][4],
             is_mock_location |-> json[6][5]]]

\* general_purpose::STANDARD.encode / decode
base64_encode(bytes) == [base64 |-> TRUE, bytes |-> bytes]

base64_decode(text) ==
    IF text.base64 THEN [ok |-> TRUE, bytes |-> text.bytes] ELSE [ok |-> FALSE]

\* let mut nonce_bytes = [0u8; 12]; rng.fill(&mut nonce_bytes): the twelve
\* bytes drawn, named by `nonce`
nonce_bytes(nonce) == [len |-> 12, bytes |-> nonce]

\* cipher.encrypt(nonce, plaintext): ciphertext and tag
Seal(nonce, plaintext) == [sealed_with |-> nonce, plaintext |-> plaintext, tag |-> TRUE]

\* cipher.decrypt(nonce, ciphertext): the plaintext when the tag verifies
Open(nonce, ciphertext) ==
    IF ciphertext.tag /\ ciphertext.sealed_with = nonce
    THEN [ok |-> TRUE, plaintext |-> ciphertext.plaintext]
    ELSE [ok |-> FALSE]

encrypt_location(location, nonce) ==
    [enc_data |-> base64_encode(Seal(nonce_bytes(nonce), Serialize(location))),
     timestamp |-> location.timestamp,
     nonce |-> base64_encode(nonce_bytes(nonce))]

\* Ok(location), Err, or the panic of Nonce::from_slice on a slice that is
\* not 12 bytes long
decrypt_location(encrypted) ==
    LET nonce == base64_decode(encrypted.nonce)
        ciphertext == base64_decode(encrypted.enc_data)
    IN  IF ~nonce.ok THEN [ok |-> FALSE]
        ELSE IF ~ciphertext.ok THEN [ok |-> FALSE]
        ELSE IF nonce.bytes.len # 12 THEN [ok |-> FALSE, panic |-> TRUE]
        ELSE IF ~Open(nonce.bytes, ciphertext.bytes).ok THEN [ok |-> FALSE]
        ELSE Deserialize(Open(nonce.bytes, ciphertext.bytes).plaintext)

(***************************************************************************)
(* Location store                                                          *)
(***************************************************************************)
\* faulty variant of PushRecord: the new record is put in front
PushRecord_Front(history, user_id, encrypted) ==
    Put(history, user_id,
        <<encrypted>> \o (IF Has(history, user_id) THEN history[user_id] ELSE <<>>))

\* history.entry(user_id).or_insert(Vec::new()).push(encrypted)
PushRecord(history, user_id, encrypted) ==
    Put(history, user_id,
        Append(IF Has(history, user_id) THEN history[user_id] ELSE <<>>, encrypted))

\* faulty variant of CountVisit: the cell's count is set, not increased
CountVisit_Set(heatmap, grid_cell) ==
    Put(heatmap, grid_cell, 1)

\* *heatmap.entry(grid_cell).or_insert(0) += 1
CountVisit(heatmap, grid_cell) ==
    Put(heatmap, grid_cell, (IF Has(heatmap, grid_cell) THEN heatmap[grid_cell] ELSE 0) + 1)

\* visits.entry(grid_cell).or_insert_with(Vec::new).push(current_time)
PushVisit(visits, grid_cell, current_time) ==
    Put(visits, grid_cell,
        Append(IF Has(visits, grid_cell) THEN visits[grid_cell] ELSE <<>>, current_time))

TotalRecords(history) ==
    LET RECURSIVE Sum(_)
        Sum(users) == IF users = {} THEN 0
                      ELSE LET u == CHOOSE u \in users : TRUE
                           IN Len(history[u]) + Sum(users \ {u})
    IN Sum(DOMAIN history)

\* the records of all users
AllRecords(history) ==
    UNION {SeqToSet(history[u]) : u \in DOMAIN history}

\* faulty variant of FirstMatch: the scan stops at the user's first record
FirstMatch_Head(locations, encrypted_id) == locations[1]

\* get_location's scan: the first record of a user's list whose enc_data is
\* the id.  The users are visited in the hash map's order, which is any order.
FirstMatch(locations, encrypted_id) ==
    LET hits == {i \in DOMAIN locations : locations[i].enc_data = encrypted_id}
    IN  locations[CHOOSE i \in hits : \A j \in hits : i <= j]

Found(history, encrypted_id) ==
    {FirstMatch(history[u], encrypted_id) :
        u \in {v \in DOMAIN history :
                 \E i \in DOMAIN history[v] : history[v][i].enc_data = encrypted_id}}

(***************************************************************************)
(* Inputs of SpecSeq.  A run draws its reports from one of two sets: many  *)
(* station fingerprints at one place, or few fingerprints of several users *)
(* at several places with several nonces and times.                        *)
(***************************************************************************)
MaxRecords == 3

\* the same for the runs that fill a heatmap box
MaxHeatmapRecords == 2

RecordsCap(sc) == IF sc = "heatmap" THEN MaxHeatmapRecords ELSE MaxRecords

Scopes == {"stations", "records"}

StationLocations ==
    [lat : {2}, lon : {5}, timestamp : {1}, user_id : {"u1"}, device_id : {"d1"},
     wifi_networks : {<<>>, <<"a">>, <<"b">>, <<"a", "b", "b", "b">>},
     cell_towers : {<<>>, <<"a">>},
     accelerometer : {TRUE}, gyroscope : {TRUE}, is_mock_location : {FALSE}]
    \cup
    [lat : {2}, lon : {5}, timestamp : {1}, user_id : {"u1"}, device_id : {"d1"},
     wifi_networks : {<<"a">>}, cell_towers : {<<>>},
     accelerometer : {TRUE}, gyroscope : {TRUE}, is_mock_location : {TRUE}]
    \cup
    [lat : {2}, lon : {5}, timestamp : {1}, user_id : {"u1"}, device_id : {"d1"},
     wifi_networks : {<<"a">>}, cell_towers : {<<>>},
     accelerometer : {FALSE}, gyroscope : {TRUE}, is_mock_location : {FALSE}]
    \cup
    [lat : {2}, lon : {5}, timestamp : {1}, user_id : {"u1"}, device_id : {"d1"},
     wifi_networks : {<<"a">>}, cell_towers : {<<>>},
     accelerometer : {TRUE}, gyroscope : {FALSE}, is_mock_location : {FALSE}]

RecordLocations ==
    [lat : {2, 12}, lon : {5}, timestamp : {1}, user_id : {"u1", "u2"},
     device_id : {"d1"}, wifi_networks : {<<"a">>}, cell_towers : {<<>>},
     accelerometer : {TRUE}, gyroscope : {TRUE}, is_mock_location : {FALSE}]

LocationsOf(sc) == IF sc = "stations" THEN StationLocations ELSE RecordLocations

\* the 12 random bytes of a nonce
NoncesOf(sc) == IF sc = "stations" THEN {"n1"} ELSE {"n1", "n2"}

\* SystemTime::now()
Times == {100}

(***************************************************************************)
(* SpecSeq: one action per handler                                         *)
(***************************************************************************)
InitSeq ==
    /\ engine \in Engines
    /\ scope \in Scopes
    /\ NEARBY_STATIONS = EmptyMap
    /\ LOCATION_HISTORY = EmptyMap
    /\ HEATMAP_DATA = EmptyMap
    /\ LOCATION_VISITS = EmptyMap
    /\ stations_guard = 0
    /\ poisoned = FALSE
    /\ pc = [th \in Threads |-> "idle"]
    /\ call = [th \in Threads |-> NoCall]
    /\ last = NoCall
    /\ HEATMAP_CACHE = EmptyMap
    /\ hm = NoCall
    /\ cr = NoCall
    /\ NoSupervisor

\* oyster's public verify_location
verify_location(location) ==
    /\ engine = "oyster"
    /\ LET ok == Verified(engine, NEARBY_STATIONS, location) IN
       /\ NEARBY_STATIONS' = UpdatedStations(engine, NEARBY_STATIONS, location)
       /\ last' = [op |-> "verify_location", location |-> location, ok |-> ok]
    /\ UNCHANGED <<engine, others, LOCATION_HISTORY, HEATMAP_DATA, LOCATION_VISITS,
                   stations_guard, poisoned, pc, call, scope>>

\* register_location: verify, encrypt, push; tee also counts the visit
register_location(location, nonce, current_time) ==
    LET ok == Verified(engine, NEARBY_STATIONS, location)
        encrypted == encrypt_location(location, nonce)
        grid_cell == GridCell_from_location(location.lat, location.lon)
    IN
    /\ ok => TotalRecords(LOCATION_HISTORY) < RecordsCap(scope)
    /\ NEARBY_STATIONS' = UpdatedStations(engine, NEARBY_STATIONS, location)
    /\ LOCATION_HISTORY' = IF ok THEN PushRecord(LOCATION_HISTORY, location.user_id, encrypted)
                                 ELSE LOCATION_HISTORY
    /\ HEATMAP_DATA' = IF ok /\ engine = "tee" THEN CountVisit(HEATMAP_DATA, grid_cell)
                                                ELSE HEATMAP_DATA
    /\ LOCATION_VISITS' = IF ok /\ engine = "tee"
                          THEN PushVisit(LOCATION_VISITS, grid_cell, current_time)
                          ELSE LOCATION_VISITS
    /\ last' = [op |-> "register_location", location |-> location, ok |-> ok,
                encrypted_location_id |-> IF ok THEN encrypted.enc_data ELSE EmptyId]
    /\ UNCHANGED <<engine, others, stations_guard, poisoned, pc, call, scope>>

\* get_location / lookup by the opaque id: a hit, decrypted
get_location_found(encrypted_id) ==
    /\ \E encrypted \in Found(LOCATION_HISTORY, encrypted_id) :
          last' = [op |-> "get_location", encrypted_id |-> encrypted_id,
                   result |-> decrypt_location(encrypted)]
    /\ UNCHANGED <<engine, others, store, stations_guard, poisoned, pc, call, scope>>

\* get_location: "Location not found"
get_location_missing(encrypted_id) ==
    /\ Found(LOCATION_HISTORY, encrypted_id) = {}
    /\ last' = [op |-> "get_location", encrypted_id |-> encrypted_id,
                result |-> [ok |-> FALSE]]
    /\ UNCHANGED <<engine, others, store, stations_guard, poisoned, pc, call, scope>>

\* the ids a caller may present: those handed out, and one never handed out
ForeignId == base64_encode(Seal(nonce_bytes("n0"), <<>>))

KnownIds == {r.enc_data : r \in AllRecords(LOCATION_HISTORY)} \cup {ForeignId}

NextSeq ==
    \/ \E location \in LocationsOf(scope) : verify_location(location)
    \/ \E location \in LocationsOf(scope), nonce \in NoncesOf(scope),
          current_time \in Times :
             register_location(location, nonce, current_time)
    \/ \E encrypted_id \in KnownIds : get_location_found(encrypted_id)
    \/ \E encrypted_id \in KnownIds : get_location_missing(encrypted_id)

SpecSeq == InitSeq /\ [][NextSeq]_vars

(***************************************************************************)
(* Terms of the properties                                                 *)
(***************************************************************************)
\* a report that claims to be mocked or lacks a sensor reading
Flagged(location) ==
    location.is_mock_location \/ ~location.accelerometer \/ ~location.gyroscope

CellOf(location) == GridCell_from_location(location.lat, location.lon)

\* the station list of a cell, empty for a cell without entry
StationsOf(stations, grid_cell) ==
    IF grid_cell \in DOMAIN stations THEN stations[grid_cell] ELSE <<>>

StationIds(list) == {list[j].id : j \in DOMAIN list}

ReportedIds(location) ==
    SeqToSet(location.wifi_networks) \cup SeqToSet(location.cell_towers)

\* SpecSeq: the step just taken ran verify_location on a report
IsReport(c) == c.op \in {"verify_location", "register_location"}

(***************************************************************************)
(* Properties of Spec                                                      *)
(***************************************************************************)
\* C1: every operation terminates and has released its locks when it
\* returns; in particular no call of verify_location waits for the
\* station-map lock while it holds that lock itself, and none aborts.
C1_NoCallWaitsForItsOwnLock ==
    \A th \in Threads :
        /\ ~(pc[th] = "second_lock" /\ stations_guard = th)
        /\ pc[th] # "panicked"
        /\ pc[th] = "returned" => stations_guard # th

\* C4: a call with an unflagged report that is through the station check
\* has returned; it is refused only when the cell has stations, and when it
\* is accepted every id it reported is a station of its cell.
C4_UnknownCellReportAccepted ==
    \A th \in Threads :
        (/\ call[th].op # "none"
         /\ ~Flagged(call[th].location)
         /\ pc[th] \notin {"verify", "check"})
        => /\ pc[th] = "returned"
           /\ ~call[th].result.ok =>
                 StationsOf(NEARBY_STATIONS, CellOf(call[th].location)) # <<>>
           /\ call[th].result.ok =>
                 ReportedIds(call[th].location) \subseteq
                    StationIds(StationsOf(NEARBY_STATIONS, CellOf(call[th].location)))

(***************************************************************************)
(* Properties of SpecSeq                                                   *)
(***************************************************************************)
\* C2: register_location with a flagged report (mock flag set, or
\* accelerometer or gyroscope absent) returns failure with the empty id and
\* leaves history, station map, heatmap and visits as they were.
C2_FlaggedReportChangesNothing ==
    [][ (last'.op = "register_location" /\ Flagged(last'.location))
        => /\ ~last'.ok
           /\ last'.encrypted_location_id = EmptyId
           /\ store' = store ]_vars

\* a flagged report was refused by the worker with records already stored
C2_Witness ==
    /\ engine = "tee"
    /\ last.op = "register_location"
    /\ last.location.is_mock_location
    /\ ~last.ok
    /\ LOCATION_HISTORY # EmptyMap
    /\ NEARBY_STATIONS # EmptyMap

\* C3: when register_location refuses an unflagged report, the cell had
\* stations (the refusal is a station mismatch), the id returned is empty,
\* no history gains a record and no station list changes.
C3_MismatchStoresNothing ==
    [][ (last'.op = "register_location" /\ ~Flagged(last'.location) /\ ~last'.ok)
        => /\ StationsOf(NEARBY_STATIONS, CellOf(last'.location)) # <<>>
           /\ last'.encrypted_location_id = EmptyId
           /\ store' = store ]_vars

\* a report with stations the cell does not know was refused for mismatch
C3_Witness ==
    /\ last.op = "register_location"
    /\ ~Flagged(last.location)
    /\ ~last.ok
    /\ ReportedIds(last.location) # {}
    /\ ReportedIds(last.location) \cap
          StationIds(StationsOf(NEARBY_STATIONS, CellOf(last.location))) = {}

\* the ids of the stored stations of one type
TypedIds(list, station_type) ==
    {list[j].id : j \in {k \in DOMAIN list : list[k].station_type = station_type}}

NoBssidMatches(list, location) ==
    SeqToSet(location.wifi_networks) \cap TypedIds(list, "Wifi") = {}

NoCellIdMatches(list, location) ==
    SeqToSet(location.cell_towers) \cap TypedIds(list, "CellTower") = {}

ConfirmedStations(list, location) ==
    Cardinality({j \in DOMAIN list :
        \/ list[j].station_type = "Wifi"
              /\ list[j].id \in SeqToSet(location.wifi_networks)
        \/ list[j].station_type = "CellTower"
              /\ list[j].id \in SeqToSet(location.cell_towers)})

Registered(history) ==
    {decrypt_location(r).location : r \in AllRecords(history)}

\* the stored records of Wi-Fi-bearing locations of one cell
WifiRegistrations(history, grid_cell) ==
    {ui \in {<<u, i>> : u \in DOMAIN history, i \in 1..MaxRecords + 1} :
        /\ ui[2] \in DOMAIN history[ui[1]]
        /\ LET location == decrypt_location(history[ui[1]][ui[2]]).location
           IN  /\ CellOf(location) = grid_cell
               /\ location.wifi_networks # <<>>}

\* an unflagged report without matching BSSID arrives in a cell where three
\* Wi-Fi-bearing locations are registered
FourthReport(c) ==
    /\ IsReport(c)
    /\ ~Flagged(c.location)
    /\ Cardinality(WifiRegistrations(LOCATION_HISTORY, CellOf(c.location))) >= 3
    /\ NoBssidMatches(StationsOf(NEARBY_STATIONS, CellOf(c.location)), c.location)

SameFingerprint(l1, l2) ==
    /\ CellOf(l1) = CellOf(l2)
    /\ l1.wifi_networks = l2.wifi_networks
    /\ l1.cell_towers = l2.cell_towers

\* an unflagged report with the cell and the stations of a registered one
Replay(c) ==
    /\ IsReport(c)
    /\ ~Flagged(c.location)
    /\ \E R \in Registered(LOCATION_HISTORY) : SameFingerprint(R, c.location)

Lookup(history, encrypted_id) ==
    {decrypt_location(r) : r \in Found(history, encrypted_id)}

IssuedIds(history) == {r.enc_data : r \in AllRecords(history)}

Positions(history) ==
    UNION {{<<u, i>> : i \in DOMAIN history[u]} : u \in DOMAIN history}

CryptoLocations ==
    [lat : {2, -5, f64_INFINITY}, lon : {5}, timestamp : {1, 2}, user_id : {"u1"},
     device_id : {"d1"}, wifi_networks : {<<>>, <<"a">>}, cell_towers : {<<>>},
     accelerometer : {TRUE, FALSE}, gyroscope : {TRUE}, is_mock_location : {FALSE}]

CryptoNonces == {"n1", "n2"}

\* a text that is not base64
NotBase64 == [base64 |-> FALSE]

\* what can be done to a record between encrypt_location and decrypt_location
Changes ==
    {"nonce not base64", "ciphertext not base64", "nonce of 16 bytes",
     "ciphertext modified", "nonce modified", "plaintext not a Location"}

Changed(encrypted, change) ==
    LET nonce == encrypted.nonce.bytes
        ciphertext == encrypted.enc_data.bytes
    IN  CASE change = "nonce not base64" ->
                [encrypted EXCEPT !.nonce = NotBase64]
          [] change = "ciphertext not base64" ->
                [encrypted EXCEPT !.enc_data = NotBase64]
          [] change = "nonce of 16 bytes" ->
                [encrypted EXCEPT !.nonce = base64_encode([nonce EXCEPT !.len = 16])]
          [] change = "ciphertext modified" ->
                [encrypted EXCEPT
                    !.enc_data = base64_encode([ciphertext EXCEPT !.tag = FALSE])]
          [] change = "nonce modified" ->
                [encrypted EXCEPT
                    !.nonce = base64_encode(nonce_bytes(
                                  CHOOSE n \in CryptoNonces : n # nonce.bytes))]
          [] change = "plaintext not a Location" ->
                [encrypted EXCEPT
                    !.enc_data = base64_encode(Seal(nonce, <<"not", "a", "location">>))]

InitCrypto ==
    /\ engine = "oyster"
    /\ scope = "crypto"
    /\ NEARBY_STATIONS = EmptyMap
    /\ LOCATION_HISTORY = EmptyMap
    /\ HEATMAP_DATA = EmptyMap
    /\ LOCATION_VISITS = EmptyMap
    /\ stations_guard = 0
    /\ poisoned = FALSE
    /\ pc = [th \in Threads |-> "idle"]
    /\ call = [th \in Threads |-> NoCall]
    /\ last = NoCall
    /\ HEATMAP_CACHE = EmptyMap
    /\ hm = NoCall
    /\ cr = NoCall
    /\ NoSupervisor

Encrypt(location, nonce) ==
    /\ cr' = [op |-> "encrypt_location", location |-> location,
              encrypted |-> encrypt_location(location, nonce), change |-> "none"]
    /\ UNCHANGED <<engine, channel, store, stations_guard, poisoned, pc, call, scope, last,
                   HEATMAP_CACHE, hm>>

Change(change) ==
    /\ cr.op = "encrypt_location"
    /\ cr' = [cr EXCEPT !.op = "changed", !.encrypted = Changed(cr.encrypted, change),
                        !.change = change]
    /\ UNCHANGED <<engine, channel, store, stations_guard, poisoned, pc, call, scope, last,
                   HEATMAP_CACHE, hm>>

Decrypt ==
    /\ cr.op \in {"encrypt_location", "changed"}
    /\ cr' = [op |-> "decrypt_location", location |-> cr.location,
              encrypted |-> cr.encrypted, change |-> cr.change,
              result |-> decrypt_location(cr.encrypted)]
    /\ UNCHANGED <<engine, channel, store, stations_guard, poisoned, pc, call, scope, last,
                   HEATMAP_CACHE, hm>>

NextCrypto ==
    \/ \E location \in CryptoLocations, nonce \in CryptoNonces : Encrypt(location, nonce)
    \/ \E change \in Changes : Change(change)
    \/ Decrypt

SpecCrypto == InitCrypto /\ [][NextCrypto]_vars

\* C12: for every Location L, decrypt_location(encrypt_location(L)) is Ok(L),
\* equal to L in every field, and the record's timestamp is L's.
C12_RoundTripOfEveryLocation ==
    (cr.op = "decrypt_location" /\ cr.change = "none") =>
        /\ cr.result = [ok |-> TRUE, location |-> cr.location]
        /\ cr.encrypted.timestamp = cr.location.timestamp

\* C14: decrypt_location answers every record that did not come unmodified
\* from encrypt_location with an error value: never a Location, never an abort.
C14_ChangedRecordGivesErr ==
    (cr.op = "decrypt_location" /\ cr.change # "none") =>
        cr.result = [ok |-> FALSE]

(***************************************************************************)
(* Visit analytics (oyster).  An instant is a number of half seconds       *)
(* since 2024-01-01T00:00:00Z, so that spans that are no whole number of   *)
(* seconds occur.  A timestamp is a text; parsing it gives the instant or  *)
(* fails.                                                                  *)
(***************************************************************************)
TicksPerSecond == 2

MIN_STAY_DURATION_SECONDS == 300

\* in units of 0.0001 degree
SAME_LOCATION_THRESHOLD == 3

\* the texts that are RFC 3339 timestamps, and the instants they denote
rfc3339 ==
    ("2024-01-01T00:00:00Z" :> 0) @@ ("2024-01-01T00:04:59Z" :> 598) @@
    ("2024-01-01T00:05:00Z" :> 600) @@ ("2024-01-01T00:05:00.5Z" :> 601) @@
    ("2024-01-01T23:59:59Z" :> 172798)

\* DateTime::parse_from_rfc3339
parse_from_rfc3339(text) ==
    IF text \in DOMAIN rfc3339 THEN [ok |-> TRUE, time |-> rfc3339[text]]
                               ELSE [ok |-> FALSE]

\* first_time.to_rfc3339(): the instant written out again, with the offset
\* +00:00 in place of Z
to_rfc3339(time) == <<"+00:00", time>>

\* (last_time - first_time).num_seconds(): whole seconds, rounded towards zero
num_seconds(ticks) ==
    IF ticks >= 0 THEN ticks \div TicksPerSecond ELSE -((-ticks) \div TicksPerSecond)

TimeOf(location) == parse_from_rfc3339(location.timestamp).time

\* calculate_distance(..) <= SAME_LOCATION_THRESHOLD, both sides squared
SameLocation(a, b) ==
    (b.lat - a.lat) * (b.lat - a.lat) + (b.lon - a.lon) * (b.lon - a.lon)
        <= SAME_LOCATION_THRESHOLD * SAME_LOCATION_THRESHOLD

\* locations.sort_by(timestamp): a stable sort
RECURSIVE InsertByTime(_, _)
InsertByTime(sorted, location) ==
    IF sorted = <<>> THEN <<location>>
    ELSE IF TimeOf(sorted[Len(sorted)]) <= TimeOf(location)
         THEN Append(sorted, location)
         ELSE Append(InsertByTime(SubSeq(sorted, 1, Len(sorted) - 1), location),
                     sorted[Len(sorted)])

RECURSIVE SortByTime(_)
SortByTime(locations) ==
    IF locations = <<>> THEN <<>>
    ELSE InsertByTime(SortByTime(SubSeq(locations, 1, Len(locations) - 1)),
                      locations[Len(locations)])

\* faulty variant of Clusters: a location joins the current cluster when it
\* is near that cluster's first location
RECURSIVE Clusters_First(_, _)
Clusters_First(current_cluster, rest) ==
    IF rest = <<>> THEN <<current_cluster>>
    ELSE IF SameLocation(rest[1], current_cluster[1])
         THEN Clusters_First(Append(current_cluster, rest[1]), Tail(rest))
         ELSE <<current_cluster>> \o Clusters_First(<<rest[1]>>, Tail(rest))

\* the loop of detect_visits: the clusters in the order they are closed; a
\* location joins the current cluster when it is near that cluster's last
RECURSIVE Clusters(_, _)
Clusters(current_cluster, rest) ==
    IF rest = <<>> THEN <<current_cluster>>
    ELSE IF SameLocation(rest[1], current_cluster[Len(current_cluster)])
         THEN Clusters(Append(current_cluster, rest[1]), Tail(rest))
         ELSE <<current_cluster>> \o Clusters(<<rest[1]>>, Tail(rest))

RECURSIVE SumOf(_, _)
SumOf(cluster, field) ==
    IF cluster = <<>> THEN 0 ELSE cluster[1][field] + SumOf(Tail(cluster), field)

\* faulty variant of LongEnough: a stay of exactly the minimum is dropped
LongEnough_Strict(duration) == duration > MIN_STAY_DURATION_SECONDS

\* if duration >= MIN_STAY_DURATION_SECONDS
LongEnough(duration) == duration >= MIN_STAY_DURATION_SECONDS

\* process_cluster: the visits a closed cluster adds, none or one.  The
\* averages are kept as sum and number of points.
process_cluster(cluster) ==
    IF Len(cluster) < 2 THEN <<>>
    ELSE LET first_time == TimeOf(cluster[1])
             last_time == TimeOf(cluster[Len(cluster)])
             duration == num_seconds(last_time - first_time)
         IN  IF LongEnough(duration)
             THEN << [lat |-> [sum |-> SumOf(cluster, "lat"), points |-> Len(cluster)],
                      lon |-> [sum |-> SumOf(cluster, "lon"), points |-> Len(cluster)],
                      arrival_time |-> to_rfc3339(first_time),
                      departure_time |-> to_rfc3339(last_time),
                      duration_seconds |-> duration,
                      point_count |-> Len(cluster)] >>
             ELSE <<>>

RECURSIVE VisitsOf(_)
VisitsOf(clusters) ==
    IF clusters = <<>> THEN <<>>
    ELSE process_cluster(clusters[1]) \o VisitsOf(Tail(clusters))

detect_visits(locations) ==
    IF locations = <<>> THEN <<>>
    ELSE VisitsOf(Clusters(<<locations[1]>>, Tail(locations)))

\* utc_timestamp >= start_time && utc_timestamp <= end_time (analytics), or
\* < end_time (daily summary)
InRange(time, range) ==
    /\ time >= range.start
    /\ IF range.closed THEN time <= range.end ELSE time < range.end

\* the records of a list that decrypt, that carry a timestamp that parses,
\* and whose instant is in the range; the others are passed over
RECURSIVE Readable(_, _)
Readable(user_history, range) ==
    IF user_history = <<>> THEN <<>>
    ELSE LET decrypted == decrypt_location(user_history[1])
             rest == Readable(Tail(user_history), range)
         IN  IF /\ decrypted.ok
                /\ parse_from_rfc3339(decrypted.location.timestamp).ok
                /\ InRange(TimeOf(decrypted.location), range)
             THEN <<decrypted.location>> \o rest
             ELSE rest

\* Option<String>: None
None == [some |-> FALSE]

Some(text) == [some |-> TRUE, value |-> text]

generate_visit_analytics_result(history, request) ==
    LET start_time == parse_from_rfc3339(request.start_time)
        end_time == parse_from_rfc3339(request.end_time)
    IN  IF ~start_time.ok
        THEN [visits |-> <<>>, error |-> Some("Invalid start time format")]
        ELSE IF ~end_time.ok
        THEN [visits |-> <<>>, error |-> Some("Invalid end time format")]
        ELSE IF ~Has(history, request.user_id)
        THEN [visits |-> <<>>, error |-> None]
        ELSE LET range == [start |-> start_time.time, end |-> end_time.time,
                           closed |-> TRUE]
             IN  [visits |-> detect_visits(SortByTime(
                                 Readable(history[request.user_id], range))),
                  error |-> None]

\* the texts that are dates, and the instant each day begins
dates == ("2024-01-01" :> 0) @@ ("2024-01-02" :> 24 * 3600 * TicksPerSecond)

\* NaiveDateTime::parse_from_str("<date> 00:00:00", "%Y-%m-%d %H:%M:%S")
parse_date(date_str) ==
    IF date_str \in DOMAIN dates THEN [ok |-> TRUE, time |-> dates[date_str]]
                                 ELSE [ok |-> FALSE]

\* utc_timestamp.hour()
hour(time) == (time \div (3600 * TicksPerSecond)) % 24

\* the locations of the user counted for a day
LocationsOfDay(history, user_id, range) ==
    IF Has(history, user_id) THEN Readable(history[user_id], range) ELSE <<>>

\* count_locations_by_hour: every hour of the day, with its count
count_locations_by_hour(locations) ==
    [h \in 0..23 |-> Cardinality({i \in DOMAIN locations : hour(TimeOf(locations[i])) = h})]

\* (x * 1000.0).round(): to the nearest thousandth of a degree, halves away
\* from zero
RoundToThousandth(x) == IF x >= 0 THEN (x + 5) \div 10 ELSE -((5 - x) \div 10)

\* count_unique_places
count_unique_places(locations) ==
    Cardinality({<<RoundToThousandth(locations[i].lat), RoundToThousandth(locations[i].lon)>> :
                    i \in DOMAIN locations})

\* calculate_total_distance adds up the distances between consecutive
\* locations in the order of their timestamps; the model keeps the square of
\* each such distance
calculate_total_distance(locations) ==
    LET sorted == SortByTime(locations)
    IN  [i \in 1..Len(sorted) - 1 |->
            (sorted[i + 1].lat - sorted[i].lat) * (sorted[i + 1].lat - sorted[i].lat)
          + (sorted[i + 1].lon - sorted[i].lon) * (sorted[i + 1].lon - sorted[i].lon)]

generate_daily_summary_result(history, user_id, date_str) ==
    LET date == parse_date(date_str) IN
    IF ~date.ok THEN [error |-> 1]
    ELSE LET range == [start |-> date.time,
                       end |-> date.time + 24 * 3600 * TicksPerSecond,
                       closed |-> FALSE]
             locations == LocationsOfDay(history, user_id, range)
         IN  [hours |-> count_locations_by_hour(locations),
              unique_places |-> count_unique_places(locations),
              distance_traveled |-> calculate_total_distance(locations)]

(***************************************************************************)
(* Heatmap (oyster).  A request is the box, in units of 0.0001 degree,     *)
(* and the privacy level.                                                  *)
(***************************************************************************)
\* faulty variant of cache_key: the privacy level is left out of the key
cache_key_NoPrivacy(request) ==
    ToString(request.min_lat) \o "-" \o ToString(request.max_lat) \o "-" \o
    ToString(request.min_lon) \o "-" \o ToString(request.max_lon)

\* format!("{}-{}-{}-{}-{}", min_lat, max_lat, min_lon, max_lon, privacy_level)
cache_key(request) ==
    ToString(request.min_lat) \o "-" \o ToString(request.max_lat) \o "-" \o
    ToString(request.min_lon) \o "-" \o ToString(request.max_lon) \o "-" \o
    ToString(request.privacy_level)

\* ((max - min) / GRID_SIZE).ceil() as usize: a negative value becomes 0
CellsAcross(min, max) ==
    LET cells == -((min - max) \div GRID_SIZE) IN IF cells < 0 THEN 0 ELSE cells

lat_cells(request) == CellsAcross(request.min_lat, request.max_lat)

lon_cells(request) == CellsAcross(request.min_lon, request.max_lon)

\* the indices of vec![vec![0; lon_cells]; lat_cells]
GridIndices(request) == (0..lat_cells(request) - 1) \X (0..lon_cells(request) - 1)

\* location.lat >= min_lat && location.lat <= max_lat && (same for lon)
InBox(location, request) ==
    /\ location.lat >= request.min_lat /\ location.lat <= request.max_lat
    /\ location.lon >= request.min_lon /\ location.lon <= request.max_lon

\* ((location.lat - min_lat) / GRID_SIZE).floor(), and the same for lon
IndexOf(location, request) ==
    <<(location.lat - request.min_lat) \div GRID_SIZE,
      (location.lon - request.min_lon) \div GRID_SIZE>>

\* the records that the loop over the history adds to the cell: those that
\* decrypt, lie in the box, and get an index inside the grid
CountedIn(history, request, index) ==
    {p \in Positions(history) :
        LET decrypted == decrypt_location(history[p[1]][p[2]])
        IN  /\ decrypted.ok
            /\ InBox(decrypted.location, request)
            /\ IndexOf(decrypted.location, request) = index
            /\ index[1] < lat_cells(request) /\ index[2] < lon_cells(request)}

\* the grid before noise
populate_grid(history, request) ==
    [index \in GridIndices(request) |-> Cardinality(CountedIn(history, request, index))]

\* normal.sample(&mut rng).round() as i32, for the cells of the grid: with
\* privacy level 0 the deviation is 0 and every sample is 0
Noise == {-2, 1}

NoiseOf(request) ==
    [GridIndices(request) -> IF request.privacy_level = 0 THEN {0} ELSE Noise]

\* if new_value < 0 { 0 } else { new_value as u32 }
apply_differential_privacy(grid, noise) ==
    [index \in DOMAIN grid |->
        LET new_value == grid[index] + noise[index]
        IN  IF new_value < 0 THEN 0 ELSE new_value]

\* faulty variant of Released: cells without a count are released too
Released_ZeroToo(count) == count >= 0

\* if count > 0
Released(count) == count > 0

max_value(grid) ==
    IF \E index \in DOMAIN grid : grid[index] > 0
    THEN CHOOSE m \in {grid[index] : index \in DOMAIN grid} :
            \A index \in DOMAIN grid : grid[index] <= m
    ELSE 0

\* the cells in the order of the two loops, those with a count only; the
\* intensity is the quotient count / max_value, kept as its two terms
grid_to_heatmap_cells(grid, request) ==
    LET width == lon_cells(request)
        order == [k \in 1..Cardinality(DOMAIN grid) |->
                     <<(k - 1) \div width, (k - 1) % width>>]
        Keep(index) == Released(grid[index])
        Cell(index) ==
            [lat |-> request.min_lat + index[1] * GRID_SIZE,
             lon |-> request.min_lon + index[2] * GRID_SIZE,
             intensity |-> IF max_value(grid) > 0
                           THEN [count |-> grid[index], max_value |-> max_value(grid)]
                           ELSE [count |-> 0, max_value |-> 1],
             count |-> grid[index]]
        kept == SelectSeq(order, Keep)
    IN  [k \in 1..Len(kept) |-> Cell(kept[k])]

HeatmapResponse(dp_grid, request) ==
    [cells |-> grid_to_heatmap_cells(dp_grid, request),
     privacy_level |-> request.privacy_level,
     min_lat |-> request.min_lat, max_lat |-> request.max_lat,
     min_lon |-> request.min_lon, max_lon |-> request.max_lon]

(***************************************************************************)
(* Read-only commands of the tee worker                                    *)
(***************************************************************************)
\* ceil(x / GRID_SIZE)
GridCeil(x) == -((-x) \div GRID_SIZE)

\* generate_heatmap(min_lat, min_lon, max_lat, max_lon) of the tee worker:
\* the stored count of every grid cell of the range that has one
tee_generate_heatmap_result(heatmap, box) ==
    LET lats == (box.min_lat \div GRID_SIZE)..GridCeil(box.max_lat)
        lons == (box.min_lon \div GRID_SIZE)..GridCeil(box.max_lon)
        present == {grid_cell \in DOMAIN heatmap :
                       grid_cell.lat_grid \in lats /\ grid_cell.lon_grid \in lons}
    IN  [grid_cells |-> {[lat_grid |-> grid_cell.lat_grid, lon_grid |-> grid_cell.lon_grid,
                          value |-> heatmap[grid_cell]] : grid_cell \in present},
         max_value |-> IF present = {} THEN 0
                       ELSE CHOOSE m \in {heatmap[c] : c \in present} :
                               \A c \in present : heatmap[c] <= m]

\* 24 * 60 * 60
day_seconds == 86400

\* get_visit_analytics(lat, lon) of the tee worker
get_visit_analytics_result(visits, lat, lon, current_time) ==
    LET grid_cell == GridCell_from_location(lat, lon)
        time_24h_ago == IF current_time > day_seconds THEN current_time - day_seconds ELSE 0
    IN  IF Has(visits, grid_cell)
        THEN LET timestamps == visits[grid_cell]
                 recent == {i \in DOMAIN timestamps : timestamps[i] >= time_24h_ago}
                 hour_of(i) == ((timestamps[i] - time_24h_ago) % day_seconds) \div 3600
                 hour_counts == [h \in 0..23 |-> Cardinality({i \in recent : hour_of(i) = h})]
                 max_count == CHOOSE m \in {hour_counts[h] : h \in 0..23} :
                                 \A h \in 0..23 : hour_counts[h] <= m
             IN  [visits_24h |-> Cardinality(recent),
                  unique_visitors_24h |-> Cardinality({timestamps[i] % 100 : i \in recent}),
                  peak_hour |-> IF max_count = 0 THEN 0
                                ELSE CHOOSE h \in 0..23 :
                                        /\ hour_counts[h] = max_count
                                        /\ \A g \in 0..h - 1 : hour_counts[g] < max_count]
        ELSE [visits_24h |-> 0, unique_visitors_24h |-> 0, peak_hour |-> 0]

(***************************************************************************)
(* SpecOps: every operation of an engine as one step, lock requests        *)
(* granted.  A run draws its inputs from one of three sets: timed traces   *)
(* of one user (oyster), locations around a heatmap box (oyster), and the  *)
(* commands of the tee worker.                                             *)
(***************************************************************************)
OpsScopes == {"visits", "heatmap", "commands", "places"}

EngineOf(sc) == IF sc = "commands" THEN "tee" ELSE "oyster"

VisitTimestamps ==
    {"2024-01-01T00:00:00Z", "2024-01-01T00:04:59Z", "2024-01-01T00:05:00Z",
     "2024-01-01T00:05:00.5Z", "yesterday"}

VisitLocations ==
    [lat : {0}, lon : {5}, timestamp : VisitTimestamps, user_id : {"u1"},
     device_id : {"d1"}, wifi_networks : {<<"a">>}, cell_towers : {<<>>},
     accelerometer : {TRUE}, gyroscope : {TRUE}, is_mock_location : {FALSE}]
    \cup
    [lat : {2, 20}, lon : {5}, timestamp : {"2024-01-01T00:05:00Z"}, user_id : {"u1"},
     device_id : {"d1"}, wifi_networks : {<<"a">>}, cell_towers : {<<>>},
     accelerometer : {TRUE}, gyroscope : {TRUE}, is_mock_location : {FALSE}]
    \cup
    [lat : {20}, lon : {5}, timestamp : {"2024-01-01T00:00:00Z"}, user_id : {"u1"},
     device_id : {"d1"}, wifi_networks : {<<"a">>}, cell_towers : {<<>>},
     accelerometer : {TRUE}, gyroscope : {TRUE}, is_mock_location : {FALSE}]

AnalyticsRequests ==
    [user_id : {"u1", "u2"}, start_time : {"2024-01-01T00:00:00Z"},
     end_time : {"2024-01-01T23:59:59Z"}]
    \cup
    [user_id : {"u1"}, start_time : {"2024-01-01T00:00:00Z", "last week"},
     end_time : {"2024-01-01T00:05:00Z", "tomorrow"}]

SummaryRequests ==
    [user_id : {"u1"}, date : {"2024-01-01", "2024-01-02", "01/01/2024"}]
    \cup [user_id : {"u2"}, date : {"2024-01-01"}]

HeatmapLocations ==
    {[lat |-> x[1], lon |-> 5, timestamp |-> "2024-01-01T00:00:00Z", user_id |-> x[2],
      device_id |-> "d1", wifi_networks |-> <<"a">>, cell_towers |-> <<>>,
      accelerometer |-> TRUE, gyroscope |-> TRUE, is_mock_location |-> FALSE] :
        x \in {<<5, "u1">>, <<5, "u2">>, <<20, "u1">>, <<30, "u2">>} }

HeatmapRequests ==
    [min_lat : {0}, max_lat : {30}, min_lon : {0}, max_lon : {10}, privacy_level : {0, 1}]
    \cup
    [min_lat : {0}, max_lat : {30}, min_lon : {-10}, max_lon : {0}, privacy_level : {0}]

\* two locations of one grid cell, 0.0000 and 0.0006 degrees, and one of the
\* next cell, 0.0012 degrees
PlaceLocations ==
    [lat : {0, 6, 12}, lon : {5}, timestamp : {"2024-01-01T00:05:00Z"}, user_id : {"u1"},
     device_id : {"d1"}, wifi_networks : {<<"a">>}, cell_towers : {<<>>},
     accelerometer : {TRUE}, gyroscope : {TRUE}, is_mock_location : {FALSE}]

TeeBoxes == [min_lat : {0}, min_lon : {0}, max_lat : {5, 20}, max_lon : {10}]

\* the requests a run makes go with the locations it reports
RequestsOf(sc, requests) == IF sc \in requests.scopes THEN requests.set ELSE {}

OpsLocations(sc) ==
    CASE sc = "visits" -> VisitLocations
      [] sc = "heatmap" -> HeatmapLocations
      [] sc = "commands" -> RecordLocations
      [] sc = "places" -> PlaceLocations

InitOps ==
    /\ scope \in OpsScopes
    /\ engine = EngineOf(scope)
    /\ NEARBY_STATIONS = EmptyMap
    /\ LOCATION_HISTORY = EmptyMap
    /\ HEATMAP_DATA = EmptyMap
    /\ LOCATION_VISITS = EmptyMap
    /\ stations_guard = 0
    /\ poisoned = FALSE
    /\ pc = [th \in Threads |-> "idle"]
    /\ call = [th \in Threads |-> NoCall]
    /\ last = NoCall
    /\ HEATMAP_CACHE = EmptyMap
    /\ hm = NoCall
    /\ cr = NoCall
    /\ NoSupervisor

\* generate_heatmap, the key in the cache: the stored response is returned
generate_heatmap_cached(request) ==
    /\ engine = "oyster"
    /\ Has(HEATMAP_CACHE, cache_key(request))
    /\ last' = [op |-> "generate_heatmap", request |-> request, cached |-> TRUE,
                response |-> HEATMAP_CACHE[cache_key(request)]]
    /\ UNCHANGED <<engine, channel, store, stations_guard, poisoned, pc, call, scope,
                   HEATMAP_CACHE, hm, cr>>

\* generate_heatmap, the key not in the cache: count, add noise, store
generate_heatmap_fresh(request, noise) ==
    /\ engine = "oyster"
    /\ ~Has(HEATMAP_CACHE, cache_key(request))
    /\ LET grid == populate_grid(LOCATION_HISTORY, request)
           response == HeatmapResponse(apply_differential_privacy(grid, noise), request)
       IN  /\ HEATMAP_CACHE' = Put(HEATMAP_CACHE, cache_key(request), response)
           /\ last' = [op |-> "generate_heatmap", request |-> request, cached |-> FALSE,
                       grid |-> grid, noise |-> noise, response |-> response]
    /\ UNCHANGED <<engine, channel, store, stations_guard, poisoned, pc, call, scope, hm, cr>>

generate_visit_analytics(request) ==
    /\ engine = "oyster"
    /\ last' = [op |-> "generate_visit_analytics", request |-> request,
                result |-> generate_visit_analytics_result(LOCATION_HISTORY, request)]
    /\ UNCHANGED <<engine, channel, store, stations_guard, poisoned, pc, call, scope,
                   HEATMAP_CACHE, hm, cr>>

generate_daily_summary(request) ==
    /\ engine = "oyster"
    /\ last' = [op |-> "generate_daily_summary", request |-> request,
                result |-> generate_daily_summary_result(LOCATION_HISTORY, request.user_id,
                                                         request.date)]
    /\ UNCHANGED <<engine, channel, store, stations_guard, poisoned, pc, call, scope,
                   HEATMAP_CACHE, hm, cr>>

\* Command::GenerateHeatmap of the tee worker
tee_generate_heatmap(box) ==
    /\ engine = "tee"
    /\ last' = [op |-> "generate_heatmap", request |-> box,
                result |-> tee_generate_heatmap_result(HEATMAP_DATA, box)]
    /\ UNCHANGED <<engine, channel, store, stations_guard, poisoned, pc, call, scope,
                   HEATMAP_CACHE, hm, cr>>

\* Command::GetVisitAnalytics of the tee worker
get_visit_analytics(lat, lon, current_time) ==
    /\ engine = "tee"
    /\ last' = [op |-> "get_visit_analytics", request |-> <<lat, lon>>,
                result |-> get_visit_analytics_result(LOCATION_VISITS, lat, lon, current_time)]
    /\ UNCHANGED <<engine, channel, store, stations_guard, poisoned, pc, call, scope,
                   HEATMAP_CACHE, hm, cr>>

\* process_command on a line that is no Command: a message, nothing else
malformed_command(cmd_str) ==
    /\ engine = "tee"
    /\ last' = [op |-> "process_command", request |-> cmd_str,
                result |-> [success |-> FALSE]]
    /\ UNCHANGED <<engine, channel, store, stations_guard, poisoned, pc, call, scope,
                   HEATMAP_CACHE, hm, cr>>

OpsIds ==
    RequestsOf(scope, [scopes |-> {"heatmap", "commands"}, set |-> KnownIds])

OpsHeatmapRequests ==
    RequestsOf(scope, [scopes |-> {"heatmap"}, set |-> HeatmapRequests])

OpsAnalyticsRequests ==
    RequestsOf(scope, [scopes |-> {"visits"}, set |-> AnalyticsRequests])

OpsSummaryRequests ==
    RequestsOf(scope, [scopes |-> {"visits", "places"}, set |-> SummaryRequests])

NextOps ==
    \/ \E location \in OpsLocations(scope), current_time \in Times :
          register_location(location, "n1", current_time)
    \/ \E encrypted_id \in OpsIds : get_location_found(encrypted_id)
    \/ \E encrypted_id \in OpsIds : get_location_missing(encrypted_id)
    \/ \E request \in OpsHeatmapRequests : generate_heatmap_cached(request)
    \/ \E request \in OpsHeatmapRequests : \E noise \in NoiseOf(request) :
          generate_heatmap_fresh(request, noise)
    \/ \E request \in OpsAnalyticsRequests : generate_visit_analytics(request)
    \/ \E request \in OpsSummaryRequests : generate_daily_summary(request)
    \/ \E box \in TeeBoxes : tee_generate_heatmap(box)
    \/ \E location \in RecordLocations, current_time \in Times :
          get_visit_analytics(location.lat, location.lon, current_time)
    \/ \E cmd_str \in {"", "{\"Register\": 1}"} : malformed_command(cmd_str)

SpecOps == InitOps /\ [][NextOps]_vars

(***************************************************************************)
(* Properties of SpecOps                                                   *)
(***************************************************************************)
HistoryOf(history, u) == IF Has(history, u) THEN history[u] ELSE <<>>

IsPrefix(s, t) == Len(s) <= Len(t) /\ SubSeq(t, 1, Len(s)) = s

\* C11: the location history is append-only.  In every step each user's
\* history stays a prefix of what it becomes; the history changes only in a
\* successful register_location, which appends exactly one record, the one
\* whose id it returns, to the history of the reporting user and leaves the
\* other users' histories alone; no other operation changes it.
C11_HistoryIsAppendOnly ==
    [][ /\ \A u \in DOMAIN LOCATION_HISTORY :
              /\ u \in DOMAIN LOCATION_HISTORY'
              /\ IsPrefix(LOCATION_HISTORY[u], LOCATION_HISTORY'[u])
        /\ (last'.op = "register_location" /\ last'.ok) =>
              LET u == last'.location.user_id IN
              /\ u \in DOMAIN LOCATION_HISTORY'
              /\ Len(LOCATION_HISTORY'[u]) = Len(HistoryOf(LOCATION_HISTORY, u)) + 1
              /\ LOCATION_HISTORY'[u][Len(LOCATION_HISTORY'[u])].enc_data
                    = last'.encrypted_location_id
              /\ \A v \in DOMAIN LOCATION_HISTORY' \ {u} :
                    HistoryOf(LOCATION_HISTORY, v) = LOCATION_HISTORY'[v]
        /\ ~(last'.op = "register_location" /\ last'.ok) =>
              LOCATION_HISTORY' = LOCATION_HISTORY
      ]_vars

\* a successful register_location has appended to a history that already
\* held a record, while another user has a history too
C11_Witness ==
    /\ last.op = "register_location"
    /\ last.ok
    /\ Len(LOCATION_HISTORY[last.location.user_id]) >= 2
    /\ Cardinality(DOMAIN LOCATION_HISTORY) = 2

\* the sorted locations the last generate_visit_analytics call worked on
AnalysedLocations ==
    SortByTime(Readable(LOCATION_HISTORY[last.request.user_id],
                        [start |-> rfc3339[last.request.start_time],
                         end |-> rfc3339[last.request.end_time], closed |-> TRUE]))

\* the clusters that call closed
ClosedClusters ==
    IF AnalysedLocations = <<>> THEN <<>>
    ELSE Clusters(<<AnalysedLocations[1]>>, Tail(AnalysedLocations))

\* last minus first timestamp of a cluster, in ticks
SpanOf(cluster) == TimeOf(cluster[Len(cluster)]) - TimeOf(cluster[1])

IsStay(cluster) ==
    Len(cluster) >= 2 /\ SpanOf(cluster) >= MIN_STAY_DURATION_SECONDS * TicksPerSecond

AnalyticsAnswered ==
    /\ last.op = "generate_visit_analytics"
    /\ last.result.error = None
    /\ Has(LOCATION_HISTORY, last.request.user_id)

\* C19: the visits reported are, in order, the closed clusters of at least
\* 2 points whose time span is at least 300 seconds, one visit each and none
\* for any other cluster; a visit's duration_seconds is the span of its
\* cluster in whole seconds and its point_count the size of the cluster.  Two
\* samples at one coordinate 300 s apart give one visit of 300 seconds, two
\* samples 299 s apart give none.
C19_VisitsAreTheLongStays ==
    AnalyticsAnswered =>
        LET stays == SelectSeq(ClosedClusters, IsStay)
            visits == last.result.visits
        IN  /\ Len(visits) = Len(stays)
            /\ \A k \in DOMAIN visits :
                  /\ visits[k].point_count = Len(stays[k])
                  /\ visits[k].duration_seconds * TicksPerSecond <= SpanOf(stays[k])
                  /\ SpanOf(stays[k]) < (visits[k].duration_seconds + 1) * TicksPerSecond
            /\ \A c \in SeqToSet(ClosedClusters) :
                  /\ Len(AnalysedLocations) = 2 /\ Len(c) = 2
                  /\ c[1].lat = c[2].lat /\ c[1].lon = c[2].lon
                  => /\ SpanOf(c) = 300 * TicksPerSecond =>
                           /\ Len(visits) = 1
                           /\ visits[1].duration_seconds = 300
                     /\ SpanOf(c) = 299 * TicksPerSecond => visits = <<>>

\* a trace of three locations: two at one coordinate exactly 300 s apart,
\* reported as one visit of 300 seconds and 2 points, and one elsewhere,
\* whose cluster of one point is dropped
C19_Witness ==
    /\ AnalyticsAnswered
    /\ Len(AnalysedLocations) = 3
    /\ Len(ClosedClusters) = 2
    /\ Len(last.result.visits) = 1
    /\ last.result.visits[1].duration_seconds = 300
    /\ last.result.visits[1].point_count = 2

\* the records of a user that cannot be decrypted or whose timestamp cannot
\* be parsed
Unreadable(history, user_id) ==
    {i \in DOMAIN HistoryOf(history, user_id) :
        LET decrypted == decrypt_location(history[user_id][i])
        IN  ~decrypted.ok \/ ~parse_from_rfc3339(decrypted.location.timestamp).ok}

HandedOut ==
    {HEATMAP_CACHE[key] : key \in DOMAIN HEATMAP_CACHE}
    \cup (IF last.op = "generate_heatmap" /\ engine = "oyster" THEN {last.response} ELSE {})

\* the largest count among the cells of a response
LargestCount(response) ==
    CHOOSE m \in {response.cells[k].count : k \in DOMAIN response.cells} :
        \A k \in DOMAIN response.cells : response.cells[k].count <= m

\* C15: in every response of generate_heatmap each released cell has a
\* count of at least 1, its intensity is its count divided by the largest
\* released count, which lies in (0, 1], and when a cell is released at all
\* some cell has intensity 1, whatever noise was drawn.
C15_ReleasedCellsArePositiveAndNormalised ==
    \A response \in HandedOut :
        /\ \A k \in DOMAIN response.cells :
              LET cell == response.cells[k] IN
              /\ cell.count >= 1
              /\ cell.intensity = [count |-> cell.count,
                                   max_value |-> LargestCount(response)]
              /\ 0 < cell.intensity.count
              /\ cell.intensity.count <= cell.intensity.max_value
        /\ response.cells # <<>> =>
              \E k \in DOMAIN response.cells :
                  response.cells[k].intensity.count = response.cells[k].intensity.max_value

\* a response made with noise of both signs: one cell's count fell below
\* zero and the cell was left out, two cells were released with different
\* counts
C15_Witness ==
    /\ last.op = "generate_heatmap"
    /\ engine = "oyster"
    /\ ~last.cached
    /\ \E index \in DOMAIN last.grid : last.grid[index] + last.noise[index] < 0
    /\ \E index \in DOMAIN last.grid : last.noise[index] > 0
    /\ Len(last.response.cells) = 2
    /\ last.response.cells[1].count # last.response.cells[2].count

\* the parameters a response was made for
ParametersOf(response) ==
    [min_lat |-> response.min_lat, max_lat |-> response.max_lat,
     min_lon |-> response.min_lon, max_lon |-> response.max_lon,
     privacy_level |-> response.privacy_level]

\* C16: once generate_heatmap has answered a request, every later call with
\* exactly the same parameters gets that answer again, verbatim and without
\* a new draw of noise, also when locations inside the box were registered
\* in between: an entry of the cache never changes, a call whose parameters
\* have an entry returns it and a call that has none stores its answer.
\* Requests that differ in a parameter never share an entry: every answer
\* was made for the parameters of the request it is given to.
C16_SameParametersSameResponse ==
    [][ /\ \A key \in DOMAIN HEATMAP_CACHE :
              /\ key \in DOMAIN HEATMAP_CACHE'
              /\ HEATMAP_CACHE'[key] = HEATMAP_CACHE[key]
        /\ \A key \in DOMAIN HEATMAP_CACHE' :
              /\ key = cache_key(ParametersOf(HEATMAP_CACHE'[key]))
              /\ \A request \in HeatmapRequests :
                    cache_key(request) = key => request = ParametersOf(HEATMAP_CACHE'[key])
        /\ (last'.op = "generate_heatmap" /\ engine = "oyster") =>
              LET request == last'.request
                  answered == {response \in HandedOut : ParametersOf(response) = request}
              IN  /\ ParametersOf(last'.response) = request
                  /\ HEATMAP_CACHE'[cache_key(request)] = last'.response
                  /\ \A response \in answered :
                        /\ last'.response = response
                        /\ last'.cached
                        /\ "noise" \notin DOMAIN last'
                        /\ HEATMAP_CACHE' = HEATMAP_CACHE
                  /\ answered = {} => ~last'.cached
      ]_vars

\* a request without noise answered from the cache although the store has
\* changed since: counted now, the grid would give another response
C16_Witness ==
    /\ last.op = "generate_heatmap"
    /\ engine = "oyster"
    /\ last.cached
    /\ last.request.privacy_level = 0
    /\ last.response # HeatmapResponse(populate_grid(LOCATION_HISTORY, last.request),
                                       last.request)
    /\ Cardinality(DOMAIN HEATMAP_CACHE) >= 2

\* the stored locations inside the box of a request, edges included
StoredInBox(history, request) ==
    {p \in Positions(history) :
        InBox(decrypt_location(history[p[1]][p[2]]).location, request)}

RECURSIVE GridSum(_, _)
GridSum(grid, indices) ==
    IF indices = {} THEN 0
    ELSE LET index == CHOOSE index \in indices : TRUE
         IN  grid[index] + GridSum(grid, indices \ {index})

GridCellsOfDay(history, user_id, date_str) ==
    LET start == parse_date(date_str).time
        locations == LocationsOfDay(history, user_id,
                                    [start |-> start,
                                     end |-> start + 24 * 3600 * TicksPerSecond,
                                     closed |-> FALSE])
    IN  {GridCell_from_location(locations[i].lat, locations[i].lon) : i \in DOMAIN locations}

RaceRequests == {request \in HeatmapRequests : request.min_lon = 0}

InitHeatmap ==
    /\ engine = "oyster"
    /\ scope = "race"
    /\ NEARBY_STATIONS = EmptyMap
    /\ LOCATION_HISTORY = EmptyMap
    /\ HEATMAP_DATA = EmptyMap
    /\ LOCATION_VISITS = EmptyMap
    /\ stations_guard = 0
    /\ poisoned = FALSE
    /\ pc = [th \in Threads |-> "idle"]
    /\ call = [th \in Threads |-> NoCall]
    /\ last = NoCall
    /\ HEATMAP_CACHE = EmptyMap
    /\ hm = [history_guard |-> 0, draws |-> EmptyMap]
    /\ cr = NoCall
    /\ NoSupervisor

\* a thread enters generate_heatmap(request)
HeatmapEnter(th, request) ==
    /\ pc[th] \in {"idle", "returned"}
    /\ pc' = [pc EXCEPT ![th] = "cache check"]
    /\ call' = [call EXCEPT ![th] = [op |-> "generate_heatmap", request |-> request]]
    /\ UNCHANGED <<engine, channel, store, stations_guard, poisoned, scope, last,
                   HEATMAP_CACHE, hm, cr>>

\* lines 22-25: the look-up finds the key and the call returns the entry
HeatmapHit(th) ==
    /\ pc[th] = "cache check"
    /\ Has(HEATMAP_CACHE, cache_key(call[th].request))
    /\ pc' = [pc EXCEPT ![th] = "returned"]
    /\ call' = [call EXCEPT ![th] =
                  [op |-> "generate_heatmap", request |-> call[th].request,
                   cached |-> TRUE,
                   response |-> HEATMAP_CACHE[cache_key(call[th].request)]]]
    /\ UNCHANGED <<engine, channel, store, stations_guard, poisoned, scope, last,
                   HEATMAP_CACHE, hm, cr>>

\* lines 22-26: the look-up finds nothing and the lock is released
HeatmapMiss(th) ==
    /\ pc[th] = "cache check"
    /\ ~Has(HEATMAP_CACHE, cache_key(call[th].request))
    /\ pc' = [pc EXCEPT ![th] = "count"]
    /\ UNCHANGED <<engine, channel, store, stations_guard, poisoned, scope, last,
                   HEATMAP_CACHE, hm, cr, call>>

\* lines 29-72: LOCATION_HISTORY is locked, the grid counted, noise drawn
\* and the response built
HeatmapCompute(th) ==
    /\ pc[th] = "count"
    /\ hm.history_guard = 0
    /\ \E noise \in NoiseOf(call[th].request) :
       LET request == call[th].request
           key == cache_key(request)
           grid == populate_grid(LOCATION_HISTORY, request)
       IN  /\ call' = [call EXCEPT ![th] =
                         [op |-> "generate_heatmap", request |-> request,
                          cached |-> FALSE,
                          response |-> HeatmapResponse(
                                           apply_differential_privacy(grid, noise),
                                           request)]]
           /\ hm' = [history_guard |-> th,
                     draws |-> Put(hm.draws, key,
                                   (IF Has(hm.draws, key) THEN hm.draws[key] ELSE 0) + 1)]
    /\ pc' = [pc EXCEPT ![th] = "insert"]
    /\ UNCHANGED <<engine, channel, store, stations_guard, poisoned, scope, last,
                   HEATMAP_CACHE, cr>>

\* lines 75-79: the response is put in the cache, whatever the cache holds
\* for the key by now; the call returns and its locks are released
HeatmapInsert(th) ==
    /\ pc[th] = "insert"
    /\ HEATMAP_CACHE' = Put(HEATMAP_CACHE, cache_key(call[th].request), call[th].response)
    /\ hm' = [hm EXCEPT !.history_guard = 0]
    /\ pc' = [pc EXCEPT ![th] = "returned"]
    /\ UNCHANGED <<engine, channel, store, stations_guard, poisoned, scope, last, cr, call>>

NextHeatmap ==
    \E th \in Threads :
        \/ \E request \in RaceRequests : HeatmapEnter(th, request)
        \/ HeatmapHit(th)
        \/ HeatmapMiss(th)
        \/ HeatmapCompute(th)
        \/ HeatmapInsert(th)

SpecHeatmap == InitHeatmap /\ [][NextHeatmap]_vars

\* C17: of two generate_heatmap calls with the same parameters that both
\* look into an empty cache before either has inserted, both return the
\* same response; noise is drawn once for the key; and the entry of a key is
\* never replaced by a different response.
C17_ConcurrentCallsShareOneResponse ==
    [][ /\ \A key \in DOMAIN HEATMAP_CACHE : HEATMAP_CACHE'[key] = HEATMAP_CACHE[key]
        /\ \A key \in DOMAIN hm'.draws : hm'.draws[key] <= 1
        /\ \A th \in Threads, other \in Threads :
              (/\ pc'[th] = "returned" /\ pc'[other] = "returned"
               /\ call'[th].request = call'[other].request)
              => call'[th].response = call'[other].response
      ]_vars


(***************************************************************************)
(* The worker process: main of tee-rewards, run under `enarx run` by the   *)
(* web interface or from a terminal.  Its standard output is a sequence of *)
(* tokens: a line (text ended by a newline) or the prompt "> ", which is   *)
(* flushed without a newline.  A response is the pretty-printed JSON of a  *)
(* Response, one token per line.  The worker runs the handlers as they are *)
(* written: a RegisterLocation that reaches the second                     *)
(* NEARBY_STATIONS.lock() of verify_location never returns, it deadlocks   *)
(* or panics (C1), so the store of a worker is never written.              *)
(***************************************************************************)
NoResponse == [tag |-> "none"]

Token(kind, of, response) == [kind |-> kind, of |-> of, response |-> response]

\* print!("> "); io::stdout().flush()
Prompt == Token("prompt", 0, NoResponse)

\* the three println! of lines 590-592; the third holds "Type a JSON command"
Banner == <<Token("banner", 0, NoResponse), Token("banner", 0, NoResponse),
            Token("ready", 0, NoResponse)>>

\* serde_json::from_str::<Command>: the texts that are a Command.  The
\* location of "{\"RegisterLocation\":{mock}}" has is_mock_location = true,
\* that of "{\"RegisterLocation\":{}}" passes the early checks.
Commands ==
    ("{\"GetLocation\":\"id\"}" :> "GetLocation")
    @@ ("{\"Help\":null}" :> "Help")
    @@ ("{\"Exit\":null}" :> "Exit")
    @@ ("{\"RegisterLocation\":{mock}}" :> "RegisterLocationMock")
    @@ ("{\"RegisterLocation\":{}}" :> "RegisterLocation")

\* a text that is no Command: the error message of serde names the variant
\* it does not know, "unknown variant `a>b`, expected one of ..."
NotCommands == {"", "{\"Register\":1}", "{\"a>b\":1}"}

Contains_gt(text) == text = "{\"a>b\":1}"

\* process_command.  The store of the worker is empty (see above), so
\* get_location finds nothing; register_location returns its failure message
\* for a flagged location and does not return for any other.
process_command(cmd_str) ==
    IF cmd_str \notin DOMAIN Commands
    THEN [tag |-> "Message", success |-> FALSE, gt |-> Contains_gt(cmd_str)]
    ELSE CASE Commands[cmd_str] = "GetLocation" ->
                 [tag |-> "LocationData", success |-> FALSE, gt |-> FALSE]
           [] Commands[cmd_str] = "Help" ->
                 [tag |-> "Message", success |-> TRUE, gt |-> FALSE]
           [] Commands[cmd_str] = "RegisterLocationMock" ->
                 [tag |-> "LocationRegistered", success |-> FALSE, gt |-> FALSE]
           [] Commands[cmd_str] = "RegisterLocation" -> [tag |-> "no return"]
           [] Commands[cmd_str] = "Exit" -> [tag |-> "exit"]

\* serde_json::to_string_pretty(&response): "{", the tag line, the lines of
\* the fields (one token; it holds '>' if the message does), "}" and "}"
to_string_pretty(of, response) ==
    <<Token("open", of, response), Token("tag", of, response),
      Token("fields", of, response), Token("endtag", of, response),
      Token("close", of, response)>>

\* input.eq_ignore_ascii_case(..) of lines 610 and 614
Words == ("help" :> "help") @@ ("Exit" :> "exit") @@ ("quit" :> "quit")

\* a line on the worker's standard input; utf8 = FALSE: its bytes are no
\* UTF-8 text, read_line returns Err
InputLine(id, text, utf8) == [id |-> id, text |-> text, utf8 |-> utf8]

\* Command::new("enarx").arg("run")...spawn(): a process with its three pipes
NewProcess ==
    [state |-> "running", at |-> "main", stdin |-> <<>>, stdin_open |-> TRUE,
     stdout |-> <<>>, stdout_open |-> TRUE, reads |-> 0]

\* println! / print!: the tokens go to the pipe; with the read end of the
\* pipe closed the write fails and println! panics
Emit(process, tokens) ==
    IF process.stdout_open THEN [process EXCEPT !.stdout = @ \o tokens]
    ELSE [process EXCEPT !.state = "exited"]

\* exit(0), or the end of a panicking process
Exited(process) == [process EXCEPT !.state = "exited"]

\* one pass of the loop of lines 597-625 with the line read_line returned
main_loop(process, line, outcome) ==
    LET response == process_command(line.text) IN
    IF ~line.utf8
    THEN Emit(process, <<Token("Error reading input", line.id, NoResponse), Prompt>>)
    ELSE IF line.text \in DOMAIN Words /\ Words[line.text] = "help"
    THEN Emit(process, to_string_pretty(line.id, process_command("{\"Help\":null}"))
                       \o <<Prompt>>)
    ELSE IF line.text \in DOMAIN Words \/ response.tag = "exit"
    THEN Exited(Emit(process, <<Token("Exiting program", line.id, NoResponse)>>))
    ELSE IF response.tag = "no return"
    THEN IF outcome = "panic" THEN Exited(process) ELSE [process EXCEPT !.at = "deadlock"]
    ELSE Emit(process, to_string_pretty(line.id, response) \o <<Prompt>>)

\* how a lock request of the thread that holds the lock ends
Relock == {"deadlock", "panic"}

MaxStdout == 24

\* main up to its first read_line: the banner and the first prompt
WorkerStart(p) ==
    /\ p \in DOMAIN enarx
    /\ enarx[p].state = "running" /\ enarx[p].at = "main"
    /\ enarx' = [enarx EXCEPT ![p] = [Emit(@, Banner \o <<Prompt>>) EXCEPT !.at = "read_line"]]
    /\ UNCHANGED <<engine, store, stations_guard, poisoned, pc, call, scope, last,
                   HEATMAP_CACHE, hm, cr, child, accepted>>

\* read_line returns a line, and the loop runs up to the next read_line
WorkerLine(p) ==
    /\ p \in DOMAIN enarx
    /\ enarx[p].state = "running" /\ enarx[p].at = "read_line"
    /\ enarx[p].stdin # <<>>
    /\ \E outcome \in Relock :
          enarx' = [enarx EXCEPT ![p] =
                       main_loop([@ EXCEPT !.stdin = Tail(@), !.reads = @ + 1],
                                 Head(enarx[p].stdin), outcome)]
    /\ UNCHANGED <<engine, store, stations_guard, poisoned, pc, call, scope, last,
                   HEATMAP_CACHE, hm, cr, child, accepted>>

\* read_line returns Ok(0) at the end of the input: the input is "", which
\* process_command answers as it answers any text that is no Command
WorkerEndOfInput(p) ==
    /\ p \in DOMAIN enarx
    /\ enarx[p].state = "running" /\ enarx[p].at = "read_line"
    /\ enarx[p].stdin = <<>> /\ ~enarx[p].stdin_open
    /\ Len(enarx[p].stdout) < MaxStdout
    /\ enarx' = [enarx EXCEPT ![p] = main_loop(@, InputLine(0, "", TRUE), "deadlock")]
    /\ UNCHANGED <<engine, store, stations_guard, poisoned, pc, call, scope, last,
                   HEATMAP_CACHE, hm, cr, child, accepted>>

(***************************************************************************)
(* SpecWorker: one worker run from a terminal or with a file as its input. *)
(***************************************************************************)
MaxLines == 3

TypedTexts == DOMAIN Commands \cup NotCommands \cup DOMAIN Words

InitWorker ==
    /\ engine = "tee"
    /\ scope = "worker"
    /\ NEARBY_STATIONS = EmptyMap
    /\ LOCATION_HISTORY = EmptyMap
    /\ HEATMAP_DATA = EmptyMap
    /\ LOCATION_VISITS = EmptyMap
    /\ stations_guard = 0
    /\ poisoned = FALSE
    /\ pc = [th \in Threads |-> "idle"]
    /\ call = [th \in Threads |-> NoCall]
    /\ last = NoCall
    /\ HEATMAP_CACHE = EmptyMap
    /\ hm = NoCall
    /\ cr = NoCall
    /\ child = NoChild
    /\ enarx = <<NewProcess>>
    /\ accepted = 0

\* a line arrives on the standard input of the worker
TypeLine(text, utf8) ==
    /\ enarx[1].stdin_open
    /\ enarx[1].reads + Len(enarx[1].stdin) < MaxLines
    /\ enarx' = [enarx EXCEPT ![1].stdin =
                    Append(@, InputLine(enarx[1].reads + Len(enarx[1].stdin) + 1, text, utf8))]
    /\ UNCHANGED <<engine, store, stations_guard, poisoned, pc, call, scope, last,
                   HEATMAP_CACHE, hm, cr, child, accepted>>

\* the input ends: the file is read to its end, or the terminal sends EOF
CloseInput ==
    /\ enarx[1].stdin_open
    /\ enarx' = [enarx EXCEPT ![1].stdin_open = FALSE]
    /\ UNCHANGED <<engine, store, stations_guard, poisoned, pc, call, scope, last,
                   HEATMAP_CACHE, hm, cr, child, accepted>>

NextWorker ==
    \/ WorkerStart(1)
    \/ WorkerLine(1)
    \/ WorkerEndOfInput(1)
    \/ \E text \in TypedTexts : TypeLine(text, TRUE)
    \/ TypeLine("bytes", FALSE)
    \/ CloseInput

SpecWorker == InitWorker /\ [][NextWorker]_vars


(***************************************************************************)
(* Properties of SpecWorker                                                *)
(***************************************************************************)
CountOf(tokens, kind) == Cardinality({i \in DOMAIN tokens : tokens[i].kind = kind})

\* C27: the worker's channel protocol is strictly alternating: it emits the
\* prompt once at startup before it reads the first line, for every input
\* line other than Exit/exit/quit it emits exactly one response message
\* followed by exactly one prompt before it reads the next line, and it never
\* emits a response without having read a command.
C27_ResponsesAlternateWithCommands ==
    LET worker == enarx[1] IN
    scope = "worker" =>
        /\ worker.at # "main" =>
              SubSeq(worker.stdout, 1, Len(Banner) + 1) = Banner \o <<Prompt>>
        /\ CountOf(worker.stdout, "open") <= worker.reads
        /\ (worker.state = "running" /\ worker.at = "read_line") =>
              /\ CountOf(worker.stdout, "open") = worker.reads
              /\ CountOf(worker.stdout, "prompt") = worker.reads + 1
              /\ worker.stdout[Len(worker.stdout)] = Prompt

\* a line that main does not take for a command: it is no UTF-8 text, or it
\* is neither help, exit or quit nor the JSON text of a Command
NotACommand(line) ==
    \/ ~line.utf8
    \/ line.text \notin DOMAIN Commands /\ line.text \notin DOMAIN Words

\* what the step has put on the standard output
Emitted(p) == SubSeq(enarx'[p].stdout, Len(enarx[p].stdout) + 1, Len(enarx'[p].stdout))

\* C28: for every input line that is not a valid encoding of a Command the
\* worker answers with a Message response with success = false, keeps running
\* and accepts the next command, and leaves location history, station map,
\* heatmap data and visit data unchanged.
C28_MalformedLineGetsAMessage ==
    [][(/\ scope = "worker"
        /\ enarx[1].at = "read_line"
        /\ enarx'[1].reads = enarx[1].reads + 1
        /\ NotACommand(Head(enarx[1].stdin)))
       => /\ Len(Emitted(1)) = 6
          /\ Emitted(1)[1].kind = "open"
          /\ Emitted(1)[1].response.tag = "Message"
          /\ ~Emitted(1)[1].response.success
          /\ Emitted(1)[6] = Prompt
          /\ enarx'[1].state = "running" /\ enarx'[1].at = "read_line"
          /\ store' = store]_vars


(***************************************************************************)
(* The supervisor: EnarxProcess of tee-rewards/web-interface.  The pipe    *)
(* from the worker is read with BufReader::read_line, a blocking call: it  *)
(* returns when a newline or the end of the stream has arrived.  The       *)
(* future handed to timeout(500 ms, ..) in send_command holds no await, so *)
(* it is complete the first time it is polled and the Err(_) arm of the    *)
(* timeout is never taken; retries grows on read errors only.              *)
(***************************************************************************)
\* a line as read_line returns it: the text up to the newline.  The prompts
\* that were flushed before the line are the beginning of its text.
TextLine(token, prompted) == [token |-> token, prompted |-> prompted]

\* reader.read_line on the stdout of a process
read_line(process) ==
    LET stdout == process.stdout
        lines == {i \in DOMAIN stdout : stdout[i].kind # "prompt"}
        first == CHOOSE i \in lines : \A j \in lines : i <= j
    IN  IF lines # {}
        THEN [is |-> "line", line |-> TextLine(stdout[first], first > 1),
              rest |-> SubSeq(stdout, first + 1, Len(stdout))]
        ELSE IF process.state # "exited" THEN [is |-> "blocked"]
        ELSE IF stdout = <<>> THEN [is |-> "eof"]
        ELSE [is |-> "line", line |-> TextLine(Prompt, FALSE), rest |-> <<>>]

\* line.contains(">")
contains_gt(line) ==
    \/ line.prompted
    \/ line.token.kind = "prompt"
    \/ line.token.kind = "fields" /\ line.token.response.gt

\* line.contains("Type a JSON command")
contains_ready(line) == line.token.kind = "ready"

\* line.trim().starts_with('{')
starts_with_brace(line) == ~line.prompted /\ line.token.kind = "open"

\* the '{' of a line less its '}'
Braces(line) ==
    CASE line.token.kind \in {"open", "tag"} -> 1
      [] line.token.kind \in {"endtag", "close"} -> -1
      [] OTHER -> 0

\* the String output: the lines pushed, and whether truncate has cut it
EmptyOutput == [lines |-> <<>>, cut |-> FALSE]

\* if let Some(pos) = output.rfind('>') { output.truncate(pos) }
Truncate(output) ==
    LET marked == {i \in DOMAIN output.lines : contains_gt(output.lines[i])}
        pos == CHOOSE i \in marked : \A j \in marked : j <= i
    IN  IF marked = {} THEN output
        ELSE [lines |-> SubSeq(output.lines, 1, pos - 1), cut |-> TRUE]

\* serde_json::from_str::<serde_json::Value>(&output) is Ok: the text is one
\* JSON value, here the five lines of one pretty-printed Response
JsonOk(output) ==
    /\ ~output.cut
    /\ Len(output.lines) = 5
    /\ \A i \in 1..5 :
          /\ ~output.lines[i].prompted
          /\ output.lines[i].token
               = to_string_pretty(output.lines[1].token.of, output.lines[1].token.response)[i]

\* output.is_empty()
is_empty(output) == output.lines = <<>> /\ ~output.cut

\* the variables of the read loop of send_command and retry_command
ReadLoop ==
    [retries |-> 0, response_started |-> FALSE, json_bracket_count |-> 0,
     output |-> EmptyOutput]

\* the arm Ok(Some((new_line, bytes))) with bytes > 0: lines 370-430
TakeLine(loop, line) ==
    LET count == loop.json_bracket_count + Braces(line)
        is_complete_json == Braces(line) = -1 /\ count = 0 /\ loop.response_started
        started == loop.response_started \/ starts_with_brace(line)
        output == IF started THEN [loop.output EXCEPT !.lines = Append(@, line)]
                  ELSE loop.output
        next == [loop EXCEPT !.json_bracket_count = count, !.response_started = started,
                             !.output = output]
    IN  IF ((contains_gt(line) \/ contains_ready(line)) /\ started) \/ is_complete_json
        THEN IF JsonOk(Truncate(output)) \/ ~is_complete_json
             THEN [returns |-> TRUE, output |-> Truncate(output)]
             ELSE [returns |-> FALSE, loop |-> [next EXCEPT !.output = Truncate(output)]]
        ELSE [returns |-> FALSE, loop |-> next]

\* the thresholds of the read loop
HungRetries == 15

MaxRetries == 30

\* Result<String, String>
Ok(output) == [ok |-> TRUE, output |-> output]

Err(message) == [ok |-> FALSE, err |-> message]

\* the statements after the loop, lines 483-498
AfterLoop(output) ==
    IF is_empty(output) THEN Err("No output received from process") ELSE Ok(output)

\* the HTTP handlers and the command each writes.  debug_enarx_status sends
\* Help without calling start_process; debug_send_command sends the JSON
\* value of the request body.  A run draws its requests from one of two
\* sets: lookups and debug commands over a pipe that reads without error, or
\* registrations, which the worker does not answer, over a pipe whose reads
\* can fail.
SupervisorScopes == {"exchange", "hang"}

Handlers(sc) ==
    IF sc = "hang"
    THEN [op : {"register_location"}, text : {"{\"RegisterLocation\":{}}"}]
    ELSE [op : {"get_location"}, text : {"{\"GetLocation\":\"id\"}"}]
         \cup [op : {"debug_send_command"}, text : {"{\"Exit\":null}", "{\"a>b\":1}"}]
         \cup [op : {"debug_enarx_status"}, text : {"{\"Help\":null}"}]

\* response.get(..) of the handlers: the tag each looks for
ExpectedTag ==
    ("get_location" :> "Location") @@ ("register_location" :> "LocationRegistered")

\* the status of the HTTP response a handler makes of the result of
\* send_command (lines 736-794, 821-885, 1114-1138, 1162-1191)
HttpStatus(op, result) ==
    IF op = "debug_enarx_status" THEN 200
    ELSE IF ~result.ok THEN 500
    ELSE IF op = "debug_send_command" THEN 200
    ELSE IF ~JsonOk(result.output) THEN 500
    ELSE LET response == result.output.lines[1].token.response IN
         IF response.tag # ExpectedTag[op] THEN 500
         ELSE IF response.success THEN 200
         ELSE IF op = "get_location" THEN 404 ELSE 400


(***************************************************************************)
(* SpecSupervisor: the HTTP handlers of the web interface run by two       *)
(* tasks, and the worker processes they spawn.  pc is the statement a task *)
(* is at, call its handler, command and local variables.  A step of a task *)
(* is the statements up to the next lock request or blocking read.         *)
(***************************************************************************)
MaxRequests == 3

MaxSpawns == 3

\* the attempts of the startup read of start_process and restart_process
StartupAttempts == 15

\* what the supervisor has no access to
inside == <<engine, store, stations_guard, poisoned, scope, HEATMAP_CACHE, hm, cr>>

InitSupervisor ==
    /\ engine = "tee"
    /\ scope \in SupervisorScopes
    /\ NEARBY_STATIONS = EmptyMap
    /\ LOCATION_HISTORY = EmptyMap
    /\ HEATMAP_DATA = EmptyMap
    /\ LOCATION_VISITS = EmptyMap
    /\ stations_guard = 0
    /\ poisoned = FALSE
    /\ pc = [th \in Threads |-> "idle"]
    /\ call = [th \in Threads |-> NoCall]
    /\ last = NoCall
    /\ HEATMAP_CACHE = EmptyMap
    /\ hm = NoCall
    /\ cr = NoCall
    /\ child = NoChild
    /\ enarx = <<>>
    /\ accepted = 0

\* a Child is dropped: its pipes are closed, the process is left alone
Dropped(process) ==
    [process EXCEPT !.stdin_open = FALSE, !.stdout_open = FALSE,
                    !.stdin = <<>>, !.stdout = <<>>]

\* child.kill() and the drop of the Child
Killed(process) == Dropped([process EXCEPT !.state = "exited", !.at = "main", !.reads = 0])

\* the handler returns: the result of the call and the HTTP status made of it
Return(th, result) ==
    /\ pc' = [pc EXCEPT ![th] = "idle"]
    /\ call' = [call EXCEPT ![th] = NoCall]
    /\ last' = [op |-> call[th].op, command |-> call[th].command, by |-> th,
                process |-> call[th].process, result |-> result,
                status |-> HttpStatus(call[th].op, result)]

\* a request arrives and its handler starts
Accept(th, handler) ==
    /\ pc[th] = "idle"
    /\ accepted < MaxRequests
    /\ accepted' = accepted + 1
    /\ call' = [call EXCEPT ![th] =
                   [op |-> handler.op,
                    command |-> InputLine(accepted + 1, handler.text, TRUE),
                    fn |-> "send_command", via |-> "handler", process |-> 0,
                    loop |-> ReadLoop, attempts |-> 0]]
    /\ pc' = [pc EXCEPT ![th] = IF handler.op = "debug_enarx_status" THEN "status"
                                ELSE "start_process"]
    /\ UNCHANGED <<inside, last, child, enarx>>

\* debug_enarx_status, lines 1102-1126: is a child held?
Status(th) ==
    /\ pc[th] = "status"
    /\ child.guard = 0
    /\ IF child.handle # 0
       THEN /\ pc' = [pc EXCEPT ![th] = "send_command"]
            /\ UNCHANGED <<call, last>>
       ELSE Return(th, Err("unknown"))
    /\ UNCHANGED <<inside, child, enarx, accepted>>

\* start_process up to its first await or return: lines 121-136 and 200-237
StartProcess(th) ==
    /\ pc[th] = "start_process"
    /\ child.guard = 0
    /\ IF child.handle = 0
       THEN /\ Len(enarx) < MaxSpawns
            /\ enarx' = Append(enarx, NewProcess)
            /\ child' = [guard |-> th, handle |-> Len(enarx) + 1]
            /\ pc' = [pc EXCEPT ![th] = "startup"]
            /\ call' = [call EXCEPT ![th].attempts = 0]
       ELSE IF enarx[child.handle].state = "exited"
       THEN /\ enarx' = [enarx EXCEPT ![child.handle] = Killed(@)]
            /\ child' = NoChild
            /\ pc' = [pc EXCEPT ![th] = "restart_process"]
            /\ UNCHANGED call
       ELSE /\ pc' = [pc EXCEPT ![th] = "send_command"]
            /\ UNCHANGED <<enarx, child, call>>
    /\ UNCHANGED <<inside, last, accepted>>

\* restart_process after its sleep: lines 247-263.  The assignment of line
\* 259 drops the Child that was held, if one was.
RestartProcess(th) ==
    /\ pc[th] = "restart_process"
    /\ child.guard = 0
    /\ Len(enarx) < MaxSpawns
    /\ enarx' = Append(IF child.handle = 0 THEN enarx
                       ELSE [enarx EXCEPT ![child.handle] = Dropped(@)],
                       NewProcess)
    /\ child' = [guard |-> th, handle |-> Len(enarx) + 1]
    /\ pc' = [pc EXCEPT ![th] = "startup"]
    /\ call' = [call EXCEPT ![th].attempts = 0]
    /\ UNCHANGED <<inside, last, accepted>>

\* faulty variant of Started: after the hang recovery the call goes back to
\* the write of its command instead of returning the Err of line 476
Started_Resend(th, rest, kept) ==
    /\ enarx' = [enarx EXCEPT ![child.handle].stdout = IF kept THEN rest ELSE <<>>]
    /\ child' = [child EXCEPT !.guard = 0]
    /\ pc' = [pc EXCEPT ![th] = "send_command"]
    /\ UNCHANGED <<call, last>>

\* start_process and restart_process return Ok(()): the guard and the reader
\* are dropped.  What the reader had taken into its buffer is lost with it;
\* kept tells whether the rest of the pipe was still in the pipe.
Started(th, rest, kept) ==
    /\ enarx' = [enarx EXCEPT ![child.handle].stdout = IF kept THEN rest ELSE <<>>]
    /\ child' = [child EXCEPT !.guard = 0]
    /\ IF call[th].via = "hang"
       THEN Return(th, Err("TEE process was unresponsive and has been restarted"))
       ELSE /\ pc' = [pc EXCEPT ![th] = "send_command"]
            /\ UNCHANGED <<call, last>>

\* one pass of the startup read loop: lines 149-176 and 272-299
StartupLine(th) ==
    /\ pc[th] = "startup"
    /\ child.guard = th
    /\ LET read == read_line(enarx[child.handle]) IN
       /\ read.is # "blocked"
       /\ IF read.is = "eof"
          THEN Started(th, <<>>, TRUE)
          ELSE IF contains_gt(read.line) \/ contains_ready(read.line)
                  \/ call[th].attempts + 1 >= StartupAttempts
          THEN \E kept \in BOOLEAN : Started(th, read.rest, kept)
          ELSE /\ enarx' = [enarx EXCEPT ![child.handle].stdout = read.rest]
               /\ call' = [call EXCEPT ![th].attempts = @ + 1]
               /\ UNCHANGED <<pc, last, child>>
    /\ UNCHANGED <<inside, accepted>>

\* send_command and retry_command up to the read loop: lines 325-348,
\* 507-520, 527-550 and 686-689
SendCommand(th) ==
    /\ pc[th] = "send_command"
    /\ child.guard = 0
    /\ IF child.handle = 0
       THEN IF call[th].fn = "send_command"
            THEN /\ pc' = [pc EXCEPT ![th] = "start_process"]
                 /\ call' = [call EXCEPT ![th].fn = "retry_command",
                                         ![th].via = "send_command"]
                 /\ UNCHANGED <<last, child, enarx>>
            ELSE /\ Return(th, Err("Restarted Enarx process unexpectedly not found"))
                 /\ UNCHANGED <<child, enarx>>
       ELSE IF enarx[child.handle].state = "exited"
       THEN /\ Return(th, Err("Failed to write to stdin"))
            /\ UNCHANGED <<child, enarx>>
       ELSE /\ enarx' = [enarx EXCEPT ![child.handle].stdin = Append(@, call[th].command)]
            /\ child' = [child EXCEPT !.guard = th]
            /\ pc' = [pc EXCEPT ![th] = "read"]
            /\ call' = [call EXCEPT ![th].process = child.handle, ![th].loop = ReadLoop]
            /\ UNCHANGED last
    /\ UNCHANGED <<inside, accepted>>

\* send_command returns from its read loop: the guard and the reader are
\* dropped
Answer(th, result, rest, kept) ==
    /\ enarx' = [enarx EXCEPT ![child.handle].stdout = IF kept THEN rest ELSE <<>>]
    /\ child' = [child EXCEPT !.guard = 0]
    /\ Return(th, result)

\* lines 457-463: no response has started after HungRetries retries, the
\* guard is dropped for the recovery
Recover(th, loop, rest) ==
    /\ enarx' = [enarx EXCEPT ![child.handle].stdout = rest]
    /\ child' = [child EXCEPT !.guard = 0]
    /\ pc' = [pc EXCEPT ![th] = "hang"]
    /\ call' = [call EXCEPT ![th].loop = loop]
    /\ UNCHANGED last

\* one pass of the read loop in which read_line returns Ok
ReadLine(th) ==
    /\ pc[th] = "read"
    /\ child.guard = th
    /\ LET read == read_line(enarx[child.handle])
           taken == TakeLine(call[th].loop, read.line)
       IN  /\ read.is # "blocked"
           /\ IF read.is = "eof"
              THEN Answer(th, AfterLoop(call[th].loop.output), <<>>, TRUE)
              ELSE IF taken.returns
              THEN \E kept \in BOOLEAN : Answer(th, Ok(taken.output), read.rest, kept)
              ELSE IF ~taken.loop.response_started /\ taken.loop.retries >= HungRetries
                      /\ call[th].fn = "send_command"
              THEN Recover(th, taken.loop, read.rest)
              ELSE /\ enarx' = [enarx EXCEPT ![child.handle].stdout = read.rest]
                   /\ call' = [call EXCEPT ![th].loop = taken.loop]
                   /\ UNCHANGED <<pc, last, child>>
    /\ UNCHANGED <<inside, accepted>>

\* one pass of the read loop in which read_line returns Err: the arm
\* Ok(None), retries += 1
ReadError(th) ==
    /\ scope = "hang"
    /\ pc[th] = "read"
    /\ child.guard = th
    /\ LET loop == [call[th].loop EXCEPT !.retries = @ + 1] IN
       IF ~loop.response_started /\ loop.retries >= HungRetries
          /\ call[th].fn = "send_command"
       THEN Recover(th, loop, enarx[child.handle].stdout)
       ELSE IF loop.retries >= MaxRetries
       THEN Answer(th, AfterLoop(loop.output), enarx[child.handle].stdout, TRUE)
       ELSE /\ call' = [call EXCEPT ![th].loop = loop]
            /\ UNCHANGED <<pc, last, child, enarx>>
    /\ UNCHANGED <<inside, accepted>>

\* the recovery of lines 464-471: the child is taken and killed, then
\* restart_process is called
Hang(th) ==
    /\ pc[th] = "hang"
    /\ child.guard = 0
    /\ enarx' = IF child.handle = 0 THEN enarx
                ELSE [enarx EXCEPT ![child.handle] = Killed(@)]
    /\ child' = NoChild
    /\ pc' = [pc EXCEPT ![th] = "restart_process"]
    /\ call' = [call EXCEPT ![th].via = "hang"]
    /\ UNCHANGED <<inside, last, accepted>>

\* the steps of a task that are statements of the program
TaskStep(th) ==
    \/ Status(th)
    \/ StartProcess(th)
    \/ RestartProcess(th)
    \/ StartupLine(th)
    \/ SendCommand(th)
    \/ ReadLine(th)
    \/ Hang(th)

\* the steps of the worker processes
WorkerStep(p) ==
    \/ WorkerStart(p)
    \/ WorkerLine(p)
    \/ WorkerEndOfInput(p)

NextSupervisor ==
    \/ \E th \in Threads, handler \in Handlers(scope) : Accept(th, handler)
    \/ \E th \in Threads : TaskStep(th)
    \/ \E th \in Threads : ReadError(th)
    \/ \E p \in 1..MaxSpawns : WorkerStep(p)

SpecSupervisor == InitSupervisor /\ [][NextSupervisor]_vars


(***************************************************************************)
(* Properties of SpecSupervisor                                            *)
(***************************************************************************)
\* the task has written its command and its call has not returned
InFlight(th) ==
    \/ pc[th] \in {"read", "hang"}
    \/ pc[th] \in {"restart_process", "startup"} /\ call[th].via = "hang"

\* the step is a step of the task
Moved(th) == pc'[th] # pc[th] \/ call'[th] # call[th]

\* C22: at most one exchange with the worker is in flight: from the moment a
\* caller writes its command line to the worker's stdin until its
\* send_command or retry_command call returns, no other caller writes to that
\* stdin, reads from that stdout, or kills or replaces the process handle.
C22_OneExchangeInFlight ==
    [][\A a, b \in Threads :
          (a # b /\ InFlight(a) /\ Moved(b)) =>
              LET p == call[a].process IN
              /\ Len(enarx'[p].stdin) <= Len(enarx[p].stdin)
              /\ enarx'[p].stdout = enarx[p].stdout
              /\ enarx'[p].state = enarx[p].state
              /\ child'.handle = child.handle]_vars


\* C23: request/response pairing is reliable: whenever send_command returns
\* Ok(s) for command c, s is the worker's response to c and contains no line
\* of the response to an earlier command and no startup banner text.
C23_OkIsTheResponseToTheCommand ==
    (scope \in SupervisorScopes /\ last # NoCall /\ last.result.ok) =>
        /\ JsonOk(last.result.output)
        /\ \A i \in DOMAIN last.result.output.lines :
              /\ last.result.output.lines[i].token.of = last.command.id
              /\ last.result.output.lines[i].token.response
                    = process_command(last.command.text)


\* the response of the worker that a returned Ok carries, decoded
Decoded(result) == result.output.lines[1].token.response

\* C30: the HTTP lookup relays the worker's decoded response: when
\* send_command returns the worker's LocationData response to a GetLocation
\* command, POST /api/location/get answers 200 for success = true and 404
\* for success = false; 500 is kept for channel and protocol failures.
C30_LookupRelaysTheWorkersResponse ==
    (/\ scope \in SupervisorScopes
     /\ last # NoCall
     /\ last.op = "get_location"
     /\ last.result.ok
     /\ JsonOk(last.result.output)
     /\ Decoded(last.result).tag = "LocationData") =>
        last.status = IF Decoded(last.result).success THEN 200 ELSE 404


\* the errors of the channel inside one exchange: the write to the worker's
\* stdin failed (line 334), the worker's stdout ended with nothing read
\* (line 485)
ChannelErrors == {"Failed to write to stdin", "No output received from process"}

\* the step is the return of send_command or retry_command to its caller
Returns(th) == pc[th] \in {"send_command", "read"} /\ pc'[th] = "idle"

\* C25: every channel error during an exchange triggers a restart of the
\* worker and an error result for the caller: when the write of the command to
\* the worker's stdin fails, or the worker's stdout is at EOF because the
\* process exited, the supervisor holds a fresh process in place of that
\* worker by the time the call returns its Err.
C25_ChannelErrorRestartsTheWorker ==
    [][\A th \in Threads :
          (/\ scope \in SupervisorScopes
           /\ Returns(th)
           /\ ~last'.result.ok
           /\ last'.result.err \in ChannelErrors) =>
              /\ child'.handle # 0
              /\ child'.handle # child.handle
              /\ enarx'[child'.handle].state = "running"]_vars


\* the worker processes that have been spawned and have not ended
Alive(processes) == {p \in DOMAIN processes : processes[p].state # "exited"}

\* C26: the supervisor manages a single worker: under every interleaving of
\* concurrent requests at most one worker process it has spawned is alive at
\* any time, and the stored process handle is never overwritten by a new
\* process unless the previous process was killed or had exited.
C26_SingleWorker ==
    [][(scope \in SupervisorScopes) =>
          (/\ Cardinality(Alive(enarx')) <= 1
           /\ ((child.handle # 0 /\ child'.handle # 0 /\ child'.handle # child.handle)
                  => enarx[child.handle].state = "exited"))]_vars


\* the line is the Exit command, as JSON or as the word exit or quit
IsExit(line) ==
    /\ line.utf8
    /\ \/ line.text \in DOMAIN Commands /\ Commands[line.text] = "Exit"
       \/ line.text \in DOMAIN Words /\ Words[line.text] \in {"exit", "quit"}

\* the process whose handle is stored has not exited
HeldRunning == child.handle # 0 /\ enarx[child.handle].state # "exited"

\* C29: Exit terminates the worker at once with no response message, and the
\* supervisor ensures a running worker before the next command: start_process
\* leaves a running process untouched, goes on to spawn when none is held or
\* the held one has exited, spawns in no other case, and send_command does not
\* come to write a command to the stdin of a process that has exited.
C29_ExitThenARunningWorker ==
    [][(scope \in SupervisorScopes) =>
          (/\ \A p \in DOMAIN enarx :
                 (/\ enarx[p].state = "running" /\ enarx[p].at = "read_line"
                  /\ enarx'[p].reads = enarx[p].reads + 1
                  /\ IsExit(Head(enarx[p].stdin))) =>
                     /\ enarx'[p].state = "exited"
                     /\ \A i \in DOMAIN Emitted(p) : Emitted(p)[i].kind # "open"
           /\ \A th \in Threads :
                 /\ (pc[th] = "start_process" /\ pc'[th] # "start_process") =>
                       IF HeldRunning
                       THEN child' = child /\ enarx' = enarx /\ pc'[th] = "send_command"
                       ELSE pc'[th] \in {"startup", "restart_process"}
                 /\ (/\ pc[th] \in {"start_process", "restart_process"}
                     /\ pc'[th] = "startup"
                     /\ call[th].via # "hang") => ~HeldRunning
                 /\ (pc[th] = "send_command" /\ pc'[th] # "send_command"
                     /\ child.handle # 0) => HeldRunning)]_vars


(***************************************************************************)
(* SpecSupervisorFair: SpecSupervisor with the scheduling of the runtime   *)
(* and of the operating system.  A task that can take its next statement   *)
(* takes it, and a worker process that can run runs.  The arrival of a     *)
(* request and the failure of a read are left to the environment: nothing  *)
(* makes either happen.                                                    *)
(***************************************************************************)
Scheduling ==
    /\ \A th \in Threads : WF_vars(TaskStep(th))
    /\ \A p \in 1..MaxSpawns : WF_vars(WorkerStep(p))

SpecSupervisorFair == SpecSupervisor /\ Scheduling

\* the Err of line 476
RetryError == Err("TEE process was unresponsive and has been restarted")

\* send_command of the task has written its command and waits in read_line
\* for a worker that is alive and will write nothing: no line is in the pipe
\* and the worker is stopped inside the command
WaitsForSilentWorker(th) ==
    /\ pc[th] = "read"
    /\ call[th].fn = "send_command"
    /\ ~call[th].loop.response_started
    /\ enarx[call[th].process].at = "deadlock"
    /\ read_line(enarx[call[th].process]).is = "blocked"

\* the step is the return of the hang recovery to the caller of send_command
RecoveryReturns(th) == pc[th] = "startup" /\ pc'[th] = "idle" /\ call[th].via = "hang"

\* C24: if the worker produces no output in response to a written command,
\* send_command does not wait for it indefinitely: it comes to its hang
\* recovery, and the recovery ends with the silent worker killed, a replacement
\* spawned and held, and an Err that tells the caller to retry, never an Ok.
C24_SilentWorkerIsRecovered ==
    /\ \A th \in Threads : WaitsForSilentWorker(th) ~> (pc[th] = "hang")
    /\ [][\A th \in Threads :
             RecoveryReturns(th) =>
                 /\ last'.result = RetryError
                 /\ enarx'[call[th].process].state = "exited"
                 /\ child'.handle \notin {0, call[th].process}
                 /\ enarx'[child'.handle].state = "running"]_vars


\* C31: whenever send_command or retry_command returns Ok(s), s is one
\* complete JSON value that parses: never a partial output, an output cut at a
\* '>' inside a JSON string, or an output that failed to parse.
C31_OkIsOneJsonValue ==
    (scope \in SupervisorScopes /\ last # NoCall /\ last.result.ok) =>
        JsonOk(last.result.output)


\* the line the read loop of the task takes in this step is the first line
\* of the response to the command the task has written
TakesFirstLine(th) ==
    /\ pc[th] = "read"
    /\ child.guard = th
    /\ Moved(th)
    /\ read_line(enarx[child.handle]).is = "line"
    /\ read_line(enarx[child.handle]).line.token.kind = "open"
    /\ read_line(enarx[child.handle]).line.token.of = call[th].command.id
    /\ ~call[th].loop.response_started

\* C32: framing does not depend on how the worker's output is split across
\* reads and exchanges: whether the prompt "> " written after the previous
\* exchange was consumed with it or is still unread, so that the first line of
\* the response reads "> {", send_command detects the start of the response
\* to its command when it reads that line.
C32_FramingIgnoresTheSplit ==
    [][\A th \in Threads :
          (scope \in SupervisorScopes /\ TakesFirstLine(th)) =>
              (pc'[th] = "read" /\ call'[th].loop.response_started)]_vars


\* C33: every send_command and retry_command call terminates: whatever the
\* worker does (silence, lines that form no response, a response that starts
\* and stalls, EOF), the read loop ends within the retry count of 30 and the
\* call goes on to return.
C33_TheReadLoopEnds ==
    /\ \A th \in Threads : (pc[th] = "read") ~> (pc[th] # "read")
    /\ [](\A th \in Threads : pc[th] = "read" => call[th].loop.retries < MaxRetries)


(***************************************************************************)
(* SpecExecutor: two requests served by one worker thread of the HTTP      *)
(* server.  The tasks of a thread take turns at their awaits; the guard of  *)
(* self.child is a std::sync::MutexGuard, kept across the awaits of         *)
(* start_process and send_command, and self.child.lock() is a blocking      *)
(* call.  A task that calls lock() while another task of its thread holds   *)
(* the guard stops the thread (or panics: the behaviour of lock() in a      *)
(* thread that holds the lock is left open), and with the thread the holder.*)
(***************************************************************************)
ExecutorHandlers == [op : {"get_location"}, text : {"{\"GetLocation\":\"id\"}"}]

InitExecutor ==
    /\ engine = "tee"
    /\ scope = "executor"
    /\ NEARBY_STATIONS = EmptyMap
    /\ LOCATION_HISTORY = EmptyMap
    /\ HEATMAP_DATA = EmptyMap
    /\ LOCATION_VISITS = EmptyMap
    /\ stations_guard = 0
    /\ poisoned = FALSE
    /\ pc = [th \in Threads |-> "idle"]
    /\ call = [th \in Threads |-> NoCall]
    /\ last = NoCall
    /\ HEATMAP_CACHE = EmptyMap
    /\ hm = NoCall
    /\ cr = NoCall
    /\ child = NoChild
    /\ enarx = <<>>
    /\ accepted = 0

\* the thread is inside a lock() that cannot return
Stuck == \E th \in Threads : pc[th] = "deadlock"

\* the next statement of the task is self.child.lock() (lines 121, 325) and
\* another task holds the guard
MeetsTheGuard(th) ==
    /\ pc[th] \in {"start_process", "send_command"}
    /\ child.guard \notin {0, th}

\* the task is polled and calls lock()
LockHeld(th) ==
    /\ ~Stuck
    /\ MeetsTheGuard(th)
    /\ \E outcome \in Relock : pc' = [pc EXCEPT ![th] = outcome]
    /\ UNCHANGED <<inside, call, last, child, enarx, accepted>>

\* a request arrives at the thread
ExecutorAccept(th) ==
    /\ ~Stuck
    /\ \E handler \in ExecutorHandlers : Accept(th, handler)

\* the task runs from one await to the next
ExecutorPoll(th) ==
    /\ ~Stuck
    /\ \/ StartProcess(th)
       \/ StartupLine(th)
       \/ SendCommand(th)
       \/ ReadLine(th)

\* the worker process runs
ExecutorWorker(p) ==
    \/ WorkerStart(p)
    \/ WorkerLine(p)

NextExecutor ==
    \/ \E th \in Threads : ExecutorAccept(th)
    \/ \E th \in Threads : ExecutorPoll(th)
    \/ \E th \in Threads : LockHeld(th)
    \/ \E p \in 1..MaxSpawns : ExecutorWorker(p)

SpecExecutor == InitExecutor /\ [][NextExecutor]_vars

\* a task that can be polled is polled, and the worker process runs
SpecExecutorFair ==
    /\ SpecExecutor
    /\ \A th \in Threads : WF_vars(ExecutorPoll(th) \/ LockHeld(th))
    /\ \A p \in 1..MaxSpawns : WF_vars(ExecutorWorker(p))

\* the task holds the guard, or its handler has returned
Served(th) == child.guard = th \/ pc[th] = "idle"

\* C34: concurrent callers of the supervisor queue on the process lock and
\* each is served in the end: a caller that finds the lock held does not wait
\* for it for ever, also when the holder is suspended at an await with the
\* lock held and the caller runs on the holder's executor thread.
C34_WaitingCallerIsServed ==
    \A th \in Threads : MeetsTheGuard(th) ~> Served(th)


\* the step puts the command of the task's call on the stdin of process p
Writes(th, p) ==
    /\ pc[th] # "idle"
    /\ Len(enarx'[p].stdin) > Len(enarx[p].stdin)
    /\ enarx'[p].stdin[Len(enarx'[p].stdin)].id = call[th].command.id

\* C36: a single send_command call writes its command line to a worker's
\* stdin at most once in total, the retry_command path included: a call
\* writes only while it has written to no process yet, and a call that has
\* written (the one that goes through the hang recovery too) writes to no
\* process again, so the replacement worker does not get the command.
C36_CommandWrittenAtMostOnce ==
    [][\A th \in Threads : \A p \in DOMAIN enarx :
          (scope \in SupervisorScopes /\ Writes(th, p)) =>
              (call[th].process = 0 /\ call'[th].process = p)]_vars

\* a call has come back from the hang recovery: its command went to the
\* worker that was killed, and the replacement has been given nothing
C36_Witness ==
    /\ scope \in SupervisorScopes
    /\ last # NoCall
    /\ last.result = RetryError
    /\ last.process # 0
    /\ child.handle \notin {0, last.process}
    /\ enarx[last.process].state = "exited"
    /\ enarx[child.handle].stdin = <<>>
    /\ enarx[child.handle].reads = 0


(***************************************************************************)
(* SpecRestart: the engine of the worker over the restarts of the worker.  *)
(* The store, the derived maps and the station map are statics of the      *)
(* worker process (Lazy::new over an empty HashMap): they live as long as  *)
(* the process.  The commands run as sequential code with every lock       *)
(* request granted, as in SpecSeq.                                         *)
(***************************************************************************)
\* no process ran before the first
NoStatics == <<EmptyMap, EmptyMap, EmptyMap, EmptyMap>>

\* faulty variant of FreshStatics: the maps outlive the process
FreshStatics_Kept(old) == old

\* the statics of a process that has just started, whatever the statics of
\* the process before it held
FreshStatics(old) == <<EmptyMap, EmptyMap, EmptyMap, EmptyMap>>

\* every id a registration can return
AllIds ==
    {encrypt_location(location, nonce).enc_data :
        location \in LocationsOf("restart"), nonce \in NoncesOf("restart")}

InitRestart ==
    /\ engine = "tee"
    /\ scope = "restart"
    /\ NEARBY_STATIONS = FreshStatics(NoStatics)[1]
    /\ LOCATION_HISTORY = FreshStatics(NoStatics)[2]
    /\ HEATMAP_DATA = FreshStatics(NoStatics)[3]
    /\ LOCATION_VISITS = FreshStatics(NoStatics)[4]
    /\ stations_guard = 0
    /\ poisoned = FALSE
    /\ pc = [th \in Threads |-> "idle"]
    /\ call = [th \in Threads |-> NoCall]
    /\ last = NoCall
    /\ HEATMAP_CACHE = EmptyMap
    /\ hm = NoCall
    /\ cr = NoCall
    /\ child = [guard |-> 0, handle |-> 1]
    /\ enarx = <<NewProcess>>
    /\ accepted = 0

\* the supervisor kills the worker and spawns its replacement (the hang
\* recovery, or start_process on an exited worker, with restart_process)
Restart ==
    /\ Len(enarx) < MaxSpawns
    /\ enarx' = Append([enarx EXCEPT ![child.handle] = Killed(@)], NewProcess)
    /\ child' = [guard |-> 0, handle |-> Len(enarx) + 1]
    /\ NEARBY_STATIONS' = FreshStatics(store)[1]
    /\ LOCATION_HISTORY' = FreshStatics(store)[2]
    /\ HEATMAP_DATA' = FreshStatics(store)[3]
    /\ LOCATION_VISITS' = FreshStatics(store)[4]
    /\ last' = [op |-> "restart", issued |-> IssuedIds(LOCATION_HISTORY),
                records |-> TotalRecords(LOCATION_HISTORY)]
    /\ UNCHANGED <<engine, stations_guard, poisoned, pc, call, scope,
                   HEATMAP_CACHE, hm, cr, accepted>>

NextRestart ==
    \/ \E location \in LocationsOf(scope), nonce \in NoncesOf(scope),
          current_time \in Times :
             register_location(location, nonce, current_time)
    \/ \E encrypted_id \in AllIds : get_location_found(encrypted_id)
    \/ \E encrypted_id \in AllIds : get_location_missing(encrypted_id)
    \/ Restart

SpecRestart == InitRestart /\ [][NextRestart]_vars

TotalCount(heatmap) ==
    LET RECURSIVE Sum(_)
        Sum(cells) == IF cells = {} THEN 0
                      ELSE LET c == CHOOSE c \in cells : TRUE
                           IN heatmap[c] + Sum(cells \ {c})
    IN Sum(DOMAIN heatmap)

DerivedMapsAgree ==
    /\ DOMAIN HEATMAP_DATA = DOMAIN LOCATION_VISITS
    /\ \A grid_cell \in DOMAIN HEATMAP_DATA :
          HEATMAP_DATA[grid_cell] = Len(LOCATION_VISITS[grid_cell])
    /\ TotalCount(HEATMAP_DATA) = TotalRecords(LOCATION_HISTORY)

\* C38: in the tee worker the count of every cell in HEATMAP_DATA is the
\* number of timestamps LOCATION_VISITS holds for it, the counts add up to
\* the number of records in LOCATION_HISTORY, and a step that changes one of
\* the three maps changes all three and is a successful register_location.
C38_DerivedMapsAgreeWithTheStore ==
    /\ [](engine = "tee" => DerivedMapsAgree)
    /\ [][(engine = "tee" /\ (\/ LOCATION_HISTORY' # LOCATION_HISTORY
                              \/ HEATMAP_DATA' # HEATMAP_DATA
                              \/ LOCATION_VISITS' # LOCATION_VISITS)) =>
             (/\ LOCATION_HISTORY' # LOCATION_HISTORY
              /\ HEATMAP_DATA' # HEATMAP_DATA
              /\ LOCATION_VISITS' # LOCATION_VISITS
              /\ last'.op = "register_location" /\ last'.ok)]_vars

\* two cells are counted, one of them twice, after a successful registration
C38_Witness ==
    /\ engine = "tee"
    /\ last # NoCall /\ last.op = "register_location" /\ last.ok
    /\ Cardinality(DOMAIN HEATMAP_DATA) = 2
    /\ \E grid_cell \in DOMAIN HEATMAP_DATA : HEATMAP_DATA[grid_cell] = 2

(***************************************************************************)
(* The heatmap of the tee worker against the registrations in the box      *)
(***************************************************************************)
\* the stored registrations inside the box whose coordinates fall in a cell
RegisteredIn(history, box, grid_cell) ==
    {p \in StoredInBox(history, box) :
        LET location == decrypt_location(history[p[1]][p[2]]).location
        IN  GridCell_from_location(location.lat, location.lon) = grid_cell}

\* the cells that hold a registration inside the box
CellsOfTheBox(history, box) ==
    {GridCell_from_location(decrypt_location(history[p[1]][p[2]]).location.lat,
                            decrypt_location(history[p[1]][p[2]]).location.lon) :
        p \in StoredInBox(history, box)}

MaxTrace == 4

\* 0.0003 degrees apart, step by step, and one place far off
TracePoints ==
    [lat : {0, 3, 6, 20}, lon : {5},
     timestamp : {"2024-01-01T00:00:00Z", "2024-01-01T00:05:00Z", "2024-01-01T23:59:59Z"},
     user_id : {"u1"}, device_id : {"d1"}, wifi_networks : {<<"a">>}, cell_towers : {<<>>},
     accelerometer : {TRUE}, gyroscope : {TRUE}, is_mock_location : {FALSE}]

SortedByTime(locations) ==
    \A i \in 1..Len(locations) - 1 : TimeOf(locations[i]) <= TimeOf(locations[i + 1])

Traces ==
    {locations \in UNION {[1..n -> TracePoints] : n \in 0..MaxTrace} :
        SortedByTime(locations)}

InitVisits ==
    /\ engine = "oyster"
    /\ scope = "trace"
    /\ NEARBY_STATIONS = EmptyMap
    /\ LOCATION_HISTORY = EmptyMap
    /\ HEATMAP_DATA = EmptyMap
    /\ LOCATION_VISITS = EmptyMap
    /\ stations_guard = 0
    /\ poisoned = FALSE
    /\ pc = [th \in Threads |-> "idle"]
    /\ call = [th \in Threads |-> NoCall]
    /\ \E locations \in Traces : last = [op |-> "trace", locations |-> locations]
    /\ HEATMAP_CACHE = EmptyMap
    /\ hm = NoCall
    /\ cr = NoCall
    /\ NoSupervisor

\* detect_visits(&locations)
DetectVisits ==
    /\ last.op = "trace"
    /\ last' = [op |-> "detect_visits", locations |-> last.locations,
                clusters |-> IF last.locations = <<>> THEN <<>>
                             ELSE Clusters(<<last.locations[1]>>, Tail(last.locations)),
                visits |-> detect_visits(last.locations)]
    /\ UNCHANGED <<engine, channel, store, stations_guard, poisoned, pc, call, scope,
                   HEATMAP_CACHE, hm, cr>>

NextVisits == DetectVisits

SpecVisits == InitVisits /\ [][NextVisits]_vars

RECURSIVE Flatten(_)
Flatten(clusters) ==
    IF clusters = <<>> THEN <<>> ELSE clusters[1] \o Flatten(Tail(clusters))

RECURSIVE PointCount(_)
PointCount(visits) ==
    IF visits = <<>> THEN 0 ELSE visits[1].point_count + PointCount(Tail(visits))

\* C35: detect_visits on a trace sorted by timestamp puts a point into the
\* current cluster exactly when it lies within 0.0003 degrees of the point
\* added to that cluster last, and starts a new cluster otherwise; the
\* clusters are contiguous runs that together are the trace, the visits are
\* in chronological order, and their point counts add up to at most the
\* length of the trace.
C35_ClustersFollowTheLastPoint ==
    (last.op = "detect_visits") =>
        LET trace == last.locations
            clusters == last.clusters
            visits == last.visits
        IN  /\ Flatten(clusters) = trace
            /\ \A k \in DOMAIN clusters :
                  /\ clusters[k] # <<>>
                  /\ \A j \in 2..Len(clusters[k]) :
                        SameLocation(clusters[k][j], clusters[k][j - 1])
            /\ \A k \in 1..Len(clusters) - 1 :
                  ~SameLocation(clusters[k + 1][1], clusters[k][Len(clusters[k])])
            /\ \A i \in 1..Len(visits) - 1 :
                  visits[i].departure_time[2] <= visits[i + 1].arrival_time[2]
            /\ PointCount(visits) <= Len(trace)

\* a point 0.0006 degrees from the cluster's first point has joined it, after
\* a point in between, and the stay is reported with its three points; a
\* second cluster was closed without a visit
C35_Witness ==
    /\ last.op = "detect_visits"
    /\ Len(last.visits) = 1
    /\ last.visits[1].point_count = 3
    /\ Len(last.clusters) = 2
    /\ ~SameLocation(last.clusters[1][3], last.clusters[1][1])

(***************************************************************************)
(* SpecOrder: registrations of two users in any order, and                 *)
(* generate_visit_analytics over the store they leave.  Two places, two    *)
(* instants: two locations may carry the same instant at different places. *)
(***************************************************************************)
OrderLocations ==
    [lat : {0, 20}, lon : {5},
     timestamp : {"2024-01-01T00:00:00Z", "2024-01-01T00:05:00Z"},
     user_id : {"u1", "u2"}, device_id : {"d1"}, wifi_networks : {<<"a">>},
     cell_towers : {<<>>}, accelerometer : {TRUE}, gyroscope : {TRUE},
     is_mock_location : {FALSE}]

InitOrder ==
    /\ engine = "oyster"
    /\ scope = "order"
    /\ NEARBY_STATIONS = EmptyMap
    /\ LOCATION_HISTORY = EmptyMap
    /\ HEATMAP_DATA = EmptyMap
    /\ LOCATION_VISITS = EmptyMap
    /\ stations_guard = 0
    /\ poisoned = FALSE
    /\ pc = [th \in Threads |-> "idle"]
    /\ call = [th \in Threads |-> NoCall]
    /\ last = NoCall
    /\ HEATMAP_CACHE = EmptyMap
    /\ hm = NoCall
    /\ cr = NoCall
    /\ NoSupervisor

NextOrder ==
    \/ \E location \in OrderLocations, current_time \in Times :
          register_location(location, "n1", current_time)
    \/ \E request \in AnalyticsRequests : generate_visit_analytics(request)

SpecOrder == InitOrder /\ [][NextOrder]_vars

\* the orders in which the records of a list could have been registered
Reorderings(user_history) ==
    {[i \in DOMAIN user_history |-> user_history[f[i]]] :
        f \in Permutations(DOMAIN user_history)}

\* the store with the user's records in another order
Reordered(history, user_id) ==
    IF Has(history, user_id)
    THEN {Put(history, user_id, list) : list \in Reorderings(history[user_id])}
    ELSE {history}

\* the store without the records of the other users
OwnRecords(history, user_id) ==
    IF Has(history, user_id) THEN Put(EmptyMap, user_id, history[user_id]) ELSE EmptyMap

\* the locations of the user that the request reads
InTheRange(history, request) ==
    IF /\ Has(history, request.user_id)
       /\ parse_from_rfc3339(request.start_time).ok
       /\ parse_from_rfc3339(request.end_time).ok
    THEN Readable(history[request.user_id],
                  [start |-> parse_from_rfc3339(request.start_time).time,
                   end |-> parse_from_rfc3339(request.end_time).time, closed |-> TRUE])
    ELSE <<>>

\* locations that carry the same instant lie at the same coordinates
TiesAgree(locations) ==
    \A i \in DOMAIN locations, j \in DOMAIN locations :
        TimeOf(locations[i]) = TimeOf(locations[j]) =>
            /\ locations[i].lat = locations[j].lat
            /\ locations[i].lon = locations[j].lon

OrderOfDistinctInstants ==
    (last.op = "generate_visit_analytics") =>
        /\ TiesAgree(InTheRange(LOCATION_HISTORY, last.request)) =>
              \A history \in Reordered(LOCATION_HISTORY, last.request.user_id) :
                 generate_visit_analytics_result(history, last.request) = last.result
        /\ generate_visit_analytics_result(
               OwnRecords(LOCATION_HISTORY, last.request.user_id), last.request)
             = last.result

====
